---- MODULE Spec2Model ----
(***************************************************************************)
(* Model of @blorkfield/blork-tabs: the panel registry, the snap chain     *)
(* engine (SnapChain), the anchor targeting of AnchorManager and the drag  *)
(* state machine of DragManager, as orchestrated by TabManager.            *)
(***************************************************************************)
EXTENDS Integers, Sequences, FiniteSets, TLC

(* ------------------------------ bounds -------------------------------- *)

\* number of panel ids the host application uses
MaxPanels == 3
\* viewport size (window.innerWidth / window.innerHeight)
WindowWidth == 1000
WindowHeight == 600
\* number of operations (API calls and input events) in one run
MaxSteps == 5
\* rendered height of a collapsed / an expanded panel
CollapsedHeight == 40
ExpandedHeight == 200

(* -------------------------- program constants ------------------------- *)

SnapThreshold == 50
PanelGap == 0
PanelMargin == 16
AnchorThreshold == 80
DefaultPanelWidth == 300
PanelWidth == 300
\* config.zIndex ?? 1000 and config.dragZIndex ?? 1002
DefaultZIndex == 1000
DragZIndex == 1002

(* ------------------------------ universe ------------------------------ *)

\* null; panel ids are non-empty strings, so the truthiness tests of the source
\* (if (panel.snappedTo)) and its null tests agree
None == "none"
AllIds == <<"p1", "p2", "p3", "p4">>
Ids == {AllIds[i] : i \in 1..MaxPanels}
IdOrNone == Ids \cup {None}

\* where the host application places each panel (PanelConfig.initialPosition)
InitialPosition ==
  [p \in Ids |-> CASE p = "p1" -> [x |-> 0, y |-> 0]
                   [] p = "p2" -> [x |-> 340, y |-> 16]
                   [] p = "p3" -> [x |-> 700, y |-> 120]
                   [] OTHER -> [x |-> 0, y |-> 300]]
\* cursor coordinates (clientX, clientY) of mouse-move events
CursorPoints == {[x |-> 0, y |-> 0], [x |-> 50, y |-> 30], [x |-> 400, y |-> 130],
                 [x |-> 1200, y |-> 700]}

Abs(n) == IF n < 0 THEN 0 - n ELSE n
Max(a, b) == IF a > b THEN a ELSE b
Min(a, b) == IF a < b THEN a ELSE b
Range(s) == {s[i] : i \in 1..Len(s)}
RemoveAt(s, e) == SelectSeq(s, LAMBDA v : v # e)
NoDup(s) == \A i, j \in 1..Len(s) : i # j => s[i] # s[j]

VARIABLES
  order,        \* TabManager.panels: ids of the Map in insertion order
  snappedTo,    \* PanelState.snappedTo of every panel object
  snappedFrom,  \* PanelState.snappedFrom of every panel object
  pos,          \* element.style.left / top of every panel
  collapsed,    \* PanelState.isCollapsed
  drag,         \* DragManager.activeDrag
  events,       \* events emitted by the last operation, in order
  last,         \* the last operation and the situation it ran in
  hung,         \* an operation entered a loop that never ends
  steps,        \* number of operations so far
  result,       \* the last direct call of an engine function and what it returned
  zIndex,       \* element.style.zIndex of every panel
  userSelect,   \* document.body.style.userSelect
  isHidden,     \* PanelState.isHidden
  resolvedAutoHideDelay,  \* PanelState.resolvedAutoHideDelay: None (undefined) or a delay
  hideTimers,   \* AutoHideManager.hideTimers: None, a pending timer or one that has fired
  listenersAttached,      \* AutoHideManager.listenersAttached
  anchors,      \* AnchorManager.anchors
  draggable,    \* PanelConfig.draggable of every panel
  snapPreviewVisible,  \* the snap preview element carries classes.snapPreviewVisible
  indicatorVisible,    \* ids of the anchors whose indicator carries anchorIndicatorVisible
  indicatorActive,     \* ids of the anchors whose indicator carries anchorIndicatorActive
  documentListeners    \* the listeners the managers attached to the document are in place

\* the drag styling, the auto-hide state and the configuration
viewVars == <<zIndex, userSelect>>
hideVars == <<isHidden, resolvedAutoHideDelay, hideTimers, listenersAttached>>
configVars == <<anchors, draggable>>
overlayVars == <<snapPreviewVisible, indicatorVisible, indicatorActive, documentListeners>>

vars == <<order, snappedTo, snappedFrom, pos, collapsed, drag, events, last, hung,
          steps, result, zIndex, userSelect, isHidden, resolvedAutoHideDelay,
          hideTimers, listenersAttached, anchors, draggable, snapPreviewVisible,
          indicatorVisible, indicatorActive, documentListeners>>

Registry == Range(order)

(* ------------------------------ geometry ------------------------------ *)

\* a panel removed from the registry is removed from the document: its
\* bounding rectangle and its offset size are all zero
Left(P, reg, p) == IF p \in reg THEN P[p].x ELSE 0
Top(P, reg, p) == IF p \in reg THEN P[p].y ELSE 0
OffsetWidth(reg, p) == IF p \in reg THEN PanelWidth ELSE 0
OffsetHeight(C, reg, p) ==
  IF p \in reg THEN (IF C[p] THEN CollapsedHeight ELSE ExpandedHeight) ELSE 0
Right(P, reg, p) == Left(P, reg, p) + OffsetWidth(reg, p)
Bottom(P, C, reg, p) == Top(P, reg, p) + OffsetHeight(C, reg, p)

(* ------------------------- SnapChain (engine) ------------------------- *)

\* a walk over n panels that has not ended after n + 1 iterations never ends:
\* its only loop state is the current panel
WalkFuel == Cardinality(Ids) + 1

RECURSIVE TraverseLeftNoVisited(_, _, _, _, _)
\* faulty variant of TraverseLeft: the loop does not test the visited set
TraverseLeftNoVisited(cur, F, reg, st, fuel) ==
  IF cur = None THEN [st EXCEPT !.done = TRUE]
  ELSE IF fuel = 0 THEN [st EXCEPT !.done = FALSE]
  ELSE LET st2 == [group |-> <<cur>> \o st.group,
                   visited |-> st.visited \cup {cur}, done |-> FALSE]
       IN IF F[cur] # None
          THEN TraverseLeftNoVisited(IF F[cur] \in reg THEN F[cur] ELSE None,
                                     F, reg, st2, fuel - 1)
          ELSE [st2 EXCEPT !.done = TRUE]

RECURSIVE TraverseLeft(_, _, _, _, _)
\* first loop of getConnectedGroup: st = [group, visited, done]
TraverseLeft(cur, F, reg, st, fuel) ==
  IF cur = None \/ cur \in st.visited THEN [st EXCEPT !.done = TRUE]
  ELSE IF fuel = 0 THEN [st EXCEPT !.done = FALSE]
  ELSE LET st2 == [group |-> <<cur>> \o st.group,
                   visited |-> st.visited \cup {cur}, done |-> FALSE]
       IN IF F[cur] # None
          THEN TraverseLeft(IF F[cur] \in reg THEN F[cur] ELSE None,
                            F, reg, st2, fuel - 1)
          ELSE [st2 EXCEPT !.done = TRUE]

RECURSIVE TraverseRight(_, _, _, _, _)
\* second loop of getConnectedGroup
TraverseRight(cur, T, reg, st, fuel) ==
  IF cur = None \/ cur \in st.visited THEN [st EXCEPT !.done = TRUE]
  ELSE IF fuel = 0 THEN [st EXCEPT !.done = FALSE]
  ELSE LET st2 == [group |-> Append(st.group, cur),
                   visited |-> st.visited \cup {cur}, done |-> FALSE]
       IN IF T[cur] # None
          THEN TraverseRight(IF T[cur] \in reg THEN T[cur] ELSE None,
                             T, reg, st2, fuel - 1)
          ELSE [st2 EXCEPT !.done = TRUE]

\* faulty variant of getConnectedGroup: the traversal to the right is left out
getConnectedGroupLeftOnly(start, T, F, reg) ==
  LET l == TraverseLeft(start, F, reg,
                        [group |-> <<>>, visited |-> {}, done |-> FALSE], WalkFuel)
  IN [group |-> l.group, done |-> l.done]

\* getConnectedGroup(startPanel, panels): [group, done]; done is FALSE when a
\* loop does not end
getConnectedGroup(start, T, F, reg) ==
  LET l == TraverseLeft(start, F, reg,
                        [group |-> <<>>, visited |-> {}, done |-> FALSE], WalkFuel)
      first == IF T[start] # None /\ T[start] \in reg THEN T[start] ELSE None
      r == TraverseRight(first, T, reg, l, WalkFuel)
  IN [group |-> r.group, done |-> l.done /\ r.done]

\* faulty variant of detachFromGroup: the former neighbours are joined to each other
detachFromGroupSplice(p, T, F, reg) ==
  LET r == T[p]
      l == F[p]
      F1 == IF r # None /\ r \in reg THEN [F EXCEPT ![r] = l] ELSE F
      T1 == IF l # None /\ l \in reg THEN [T EXCEPT ![l] = r] ELSE T
  IN [to |-> [T1 EXCEPT ![p] = None], from |-> [F1 EXCEPT ![p] = None]]

\* faulty variant of detachFromGroup: the second block is an else branch of the first
detachFromGroupElseIf(p, T, F, reg) ==
  LET r == T[p]
      l == F[p]
  IN IF r # None
     THEN [to |-> [T EXCEPT ![p] = None],
           from |-> IF r \in reg THEN [F EXCEPT ![r] = None] ELSE F]
     ELSE IF l # None
     THEN [to |-> IF l \in reg THEN [T EXCEPT ![l] = None] ELSE T,
           from |-> [F EXCEPT ![p] = None]]
     ELSE [to |-> T, from |-> F]

\* detachFromGroup(panel, panels): the links after the call
detachFromGroup(p, T, F, reg) ==
  LET r == T[p]
      F1 == IF r # None /\ r \in reg THEN [F EXCEPT ![r] = None] ELSE F
      T1 == IF r # None THEN [T EXCEPT ![p] = None] ELSE T
      l == F1[p]
      T2 == IF l # None /\ l \in reg THEN [T1 EXCEPT ![l] = None] ELSE T1
      F2 == IF l # None THEN [F1 EXCEPT ![p] = None] ELSE F1
  IN [to |-> T2, from |-> F2]

\* snapPanels(leftPanel, rightPanel)
snapPanels(l, r, T, F) ==
  [to |-> [T EXCEPT ![l] = r], from |-> [F EXCEPT ![r] = l]]

\* faulty variant of unsnap: both fields are cleared without the two tests
unsnapUnchecked(l, r, T, F) ==
  [to |-> [T EXCEPT ![l] = None], from |-> [F EXCEPT ![r] = None]]

\* unsnap(leftPanel, rightPanel)
unsnap(l, r, T, F) ==
  [to |-> IF T[l] = r THEN [T EXCEPT ![l] = None] ELSE T,
   from |-> IF F[r] = l THEN [F EXCEPT ![r] = None] ELSE F]

\* areInSameChain(panel1, panel2, panels)
areInSameChain(a, b, T, F, reg) ==
  b \in Range(getConnectedGroup(a, T, F, reg).group)

RECURSIVE WalkLeftmost(_, _, _, _)
\* getLeftmostPanel: [panel, done]
WalkLeftmost(cur, F, reg, fuel) ==
  IF F[cur] = None \/ F[cur] \notin reg THEN [panel |-> cur, done |-> TRUE]
  ELSE IF fuel = 0 THEN [panel |-> cur, done |-> FALSE]
  ELSE WalkLeftmost(F[cur], F, reg, fuel - 1)

getLeftmostPanel(p, F, reg) == WalkLeftmost(p, F, reg, WalkFuel)

RECURSIVE WalkRightmost(_, _, _, _)
\* getRightmostPanel: [panel, done]
WalkRightmost(cur, T, reg, fuel) ==
  IF T[cur] = None \/ T[cur] \notin reg THEN [panel |-> cur, done |-> TRUE]
  ELSE IF fuel = 0 THEN [panel |-> cur, done |-> FALSE]
  ELSE WalkRightmost(T[cur], T, reg, fuel - 1)

getRightmostPanel(p, T, reg) == WalkRightmost(p, T, reg, WalkFuel)

NoTarget == [found |-> FALSE, targetId |-> None, side |-> None, x |-> 0, y |-> 0]

RECURSIVE SumWidths(_, _)
SumWidths(moving, reg) ==
  IF moving = <<>> THEN 0
  ELSE OffsetWidth(reg, Head(moving)) + PanelGap + SumWidths(Tail(moving), reg)

\* faulty variant of SnapCandidate: both threshold tests accept equality
SnapCandidateInclusive(id, x, y, totalWidth, T, F, P, reg) ==
  LET verticalOverlap == Abs(y - Top(P, reg, id)) <= SnapThreshold * 2
      snapToLeftX == Left(P, reg, id) - totalWidth - PanelGap
      snapToRightX == Right(P, reg, id) + PanelGap
  IN IF ~verticalOverlap THEN NoTarget
     ELSE IF Abs(x - snapToLeftX) <= SnapThreshold /\ F[id] = None
       THEN [found |-> TRUE, targetId |-> id, side |-> "left",
             x |-> snapToLeftX, y |-> Top(P, reg, id)]
     ELSE IF Abs(x - snapToRightX) <= SnapThreshold /\ T[id] = None
       THEN [found |-> TRUE, targetId |-> id, side |-> "right",
             x |-> snapToRightX, y |-> Top(P, reg, id)]
     ELSE NoTarget

\* faulty variant of SnapCandidate: the target's sides are not tested for an
\* existing link
SnapCandidateAnySide(id, x, y, totalWidth, T, F, P, reg) ==
  LET verticalOverlap == Abs(y - Top(P, reg, id)) < SnapThreshold * 2
      snapToLeftX == Left(P, reg, id) - totalWidth - PanelGap
      snapToRightX == Right(P, reg, id) + PanelGap
  IN IF ~verticalOverlap THEN NoTarget
     ELSE IF Abs(x - snapToLeftX) < SnapThreshold
       THEN [found |-> TRUE, targetId |-> id, side |-> "left",
             x |-> snapToLeftX, y |-> Top(P, reg, id)]
     ELSE IF Abs(x - snapToRightX) < SnapThreshold
       THEN [found |-> TRUE, targetId |-> id, side |-> "right",
             x |-> snapToRightX, y |-> Top(P, reg, id)]
     ELSE NoTarget

\* the two tests of findSnapTarget's loop body for one candidate
SnapCandidate(id, x, y, totalWidth, T, F, P, reg) ==
  LET verticalOverlap == Abs(y - Top(P, reg, id)) < SnapThreshold * 2
      snapToLeftX == Left(P, reg, id) - totalWidth - PanelGap
      snapToRightX == Right(P, reg, id) + PanelGap
  IN IF ~verticalOverlap THEN NoTarget
     ELSE IF Abs(x - snapToLeftX) < SnapThreshold /\ F[id] = None
       THEN [found |-> TRUE, targetId |-> id, side |-> "left",
             x |-> snapToLeftX, y |-> Top(P, reg, id)]
     ELSE IF Abs(x - snapToRightX) < SnapThreshold /\ T[id] = None
       THEN [found |-> TRUE, targetId |-> id, side |-> "right",
             x |-> snapToRightX, y |-> Top(P, reg, id)]
     ELSE NoTarget

\* faulty variant of findSnapTarget: members of the moving group are candidates
findSnapTargetNoSkip(moving, ord, T, F, P) ==
  IF Len(moving) = 0 THEN NoTarget
  ELSE LET reg == Range(ord)
           totalWidth == SumWidths(moving, reg) - PanelGap
           x == Left(P, reg, moving[1])
           y == Top(P, reg, moving[1])
           cand(i) == SnapCandidate(ord[i], x, y, totalWidth, T, F, P, reg)
           hits == {i \in 1..Len(ord) : cand(i).found}
       IN IF hits = {} THEN NoTarget
          ELSE cand(CHOOSE i \in hits : \A j \in hits : i <= j)

\* findSnapTarget(movingPanels, panels, config): the first candidate in the
\* Map's iteration order that passes
findSnapTarget(moving, ord, T, F, P) ==
  IF Len(moving) = 0 THEN NoTarget
  ELSE LET reg == Range(ord)
           totalWidth == SumWidths(moving, reg) - PanelGap
           x == Left(P, reg, moving[1])
           y == Top(P, reg, moving[1])
           cand(i) == IF ord[i] \in Range(moving) THEN NoTarget
                      ELSE SnapCandidate(ord[i], x, y, totalWidth, T, F, P, reg)
           hits == {i \in 1..Len(ord) : cand(i).found}
       IN IF hits = {} THEN NoTarget
          ELSE cand(CHOOSE i \in hits : \A j \in hits : i <= j)

RECURSIVE LayoutRowStacked(_, _, _, _, _)
\* faulty variant of LayoutRow: currentX is not advanced
LayoutRowStacked(moving, i, currentX, y, st) ==
  IF i > Len(moving) THEN st.pos
  ELSE LET p == moving[i]
           P2 == IF p \in st.reg
                 THEN [st.pos EXCEPT ![p] = [x |-> currentX, y |-> y]]
                 ELSE st.pos
       IN LayoutRowStacked(moving, i + 1, currentX, y, [st EXCEPT !.pos = P2])

RECURSIVE LayoutRow(_, _, _, _, _)
\* the positioning loop of snapPanelsToTarget, from index i
LayoutRow(moving, i, currentX, y, st) ==
  IF i > Len(moving) THEN st.pos
  ELSE LET p == moving[i]
           P2 == IF p \in st.reg
                 THEN [st.pos EXCEPT ![p] = [x |-> currentX, y |-> y]]
                 ELSE st.pos
       IN LayoutRow(moving, i + 1, currentX + OffsetWidth(st.reg, p) + PanelGap,
                    y, [st EXCEPT !.pos = P2])

\* faulty variant of snapPanelsToTarget: the two boundary panels are swapped
snapPanelsToTargetWrongEnd(moving, tgt, ord, T, F, P) ==
  LET reg == Range(ord) IN
  IF tgt.targetId \notin reg THEN [to |-> T, from |-> F, pos |-> P]
  ELSE LET leftmost == moving[1]
           rightmost == moving[Len(moving)]
           P2 == LayoutRow(moving, 1, tgt.x, tgt.y, [pos |-> P, reg |-> reg])
       IN IF tgt.side = "left"
          THEN [to |-> [T EXCEPT ![leftmost] = tgt.targetId],
                from |-> [F EXCEPT ![tgt.targetId] = leftmost], pos |-> P2]
          ELSE [to |-> [T EXCEPT ![tgt.targetId] = rightmost],
                from |-> [F EXCEPT ![rightmost] = tgt.targetId], pos |-> P2]

\* snapPanelsToTarget(movingPanels, targetId, side, x, y, panels, config)
snapPanelsToTarget(moving, tgt, ord, T, F, P) ==
  LET reg == Range(ord) IN
  IF tgt.targetId \notin reg THEN [to |-> T, from |-> F, pos |-> P]
  ELSE LET leftmost == moving[1]
           rightmost == moving[Len(moving)]
           P2 == LayoutRow(moving, 1, tgt.x, tgt.y, [pos |-> P, reg |-> reg])
       IN IF tgt.side = "left"
          THEN [to |-> [T EXCEPT ![rightmost] = tgt.targetId],
                from |-> [F EXCEPT ![tgt.targetId] = rightmost], pos |-> P2]
          ELSE [to |-> [T EXCEPT ![tgt.targetId] = leftmost],
                from |-> [F EXCEPT ![leftmost] = tgt.targetId], pos |-> P2]

RECURSIVE UpdateWalkOverlap(_, _, _, _, _)
\* faulty variant of UpdateWalk: the left panel's width is not subtracted
UpdateWalkOverlap(cur, F, reg, P, fuel) ==
  IF F[cur] = None \/ F[cur] \notin reg THEN [pos |-> P, done |-> TRUE]
  ELSE IF fuel = 0 THEN [pos |-> P, done |-> FALSE]
  ELSE LET l == F[cur]
           P2 == [P EXCEPT ![l] = [x |-> Left(P, reg, cur) - PanelGap,
                                   y |-> Top(P, reg, cur)]]
       IN UpdateWalkOverlap(l, F, reg, P2, fuel - 1)

RECURSIVE UpdateWalk(_, _, _, _, _)
\* the leftward loop of updateSnappedPositions: [pos, done]
UpdateWalk(cur, F, reg, P, fuel) ==
  IF F[cur] = None \/ F[cur] \notin reg THEN [pos |-> P, done |-> TRUE]
  ELSE IF fuel = 0 THEN [pos |-> P, done |-> FALSE]
  ELSE LET l == F[cur]
           P2 == [P EXCEPT ![l] = [x |-> Left(P, reg, cur) - OffsetWidth(reg, l) - PanelGap,
                                   y |-> Top(P, reg, cur)]]
       IN UpdateWalk(l, F, reg, P2, fuel - 1)

\* updateSnappedPositions(panels, config): [pos, done]; done is FALSE when the
\* walk never ends
updateSnappedPositions(ord, T, F, P) ==
  LET reg == Range(ord)
      ends == {i \in 1..Len(ord) : T[ord[i]] = None /\ F[ord[i]] # None}
      any == {i \in 1..Len(ord) : F[ord[i]] # None}
      pick == IF ends # {} THEN ends ELSE any
  IN IF pick = {} THEN [pos |-> P, done |-> TRUE]
     ELSE UpdateWalk(ord[CHOOSE i \in pick : \A j \in pick : i <= j], F, reg, P, WalkFuel)

(* --------------------------- AnchorManager ---------------------------- *)

\* getDefaultAnchorConfigs: the anchors of addDefaultAnchors, with the value
\* of getPosition() for the window
DefaultAnchors ==
  << [id |-> "top-left", x |-> PanelMargin, y |-> PanelMargin],
     [id |-> "top-right", x |-> WindowWidth - PanelMargin - DefaultPanelWidth,
      y |-> PanelMargin],
     [id |-> "bottom-left", x |-> PanelMargin, y |-> WindowHeight - PanelMargin],
     [id |-> "bottom-right", x |-> WindowWidth - PanelMargin - DefaultPanelWidth,
      y |-> WindowHeight - PanelMargin],
     [id |-> "top-center", x |-> (WindowWidth - DefaultPanelWidth) \div 2,
      y |-> PanelMargin] >>

\* anchor.config.id.includes('bottom')
IsBottom(id) == id \in {"bottom-left", "bottom-right", "bottom-center"}

NoAnchor == [found |-> FALSE, anchor |-> None, dockPanelIndex |-> 0, positions |-> <<>>]

\* the square of the distance the code compares (Math.sqrt is monotonic)
Dist2(P, reg, p, a) ==
  (Left(P, reg, p) - a.x) * (Left(P, reg, p) - a.x)
  + (Top(P, reg, p) - a.y) * (Top(P, reg, p) - a.y)

\* index (from 1) of the panel whose grip is closest to the anchor: the first
\* of the minimal ones
ClosestPanelIdx(moving, a, P, reg) ==
  CHOOSE i \in 1..Len(moving) :
    /\ \A j \in 1..Len(moving) : Dist2(P, reg, moving[i], a) <= Dist2(P, reg, moving[j], a)
    /\ \A j \in 1..(i - 1) : Dist2(P, reg, moving[j], a) > Dist2(P, reg, moving[i], a)

\* faulty variant of AnchorLayout: the row starts at the anchor whichever
\* panel docks
AnchorLayoutFromAnchor(moving, idx, anchorX, anchorY, reg) ==
  [i \in 1..Len(moving) |->
     [x |-> anchorX + SumWidths(SubSeq(moving, 1, i - 1), reg), y |-> anchorY]]

\* the positions of all panels when the panel at index idx sits at the anchor
AnchorLayout(moving, idx, anchorX, anchorY, reg) ==
  LET leftX == anchorX - SumWidths(SubSeq(moving, 1, idx - 1), reg)
  IN [i \in 1..Len(moving) |->
        [x |-> leftX + SumWidths(SubSeq(moving, 1, i - 1), reg), y |-> anchorY]]

LayoutFits(moving, positions, reg) ==
  /\ positions[1].x >= 0
  /\ positions[Len(moving)].x + OffsetWidth(reg, moving[Len(moving)]) <= WindowWidth

\* faulty variant of AnchorCandidate: an anchor whose closest-panel layout
\* does not fit is rejected without trying the other indices
AnchorCandidateNoFallback(moving, a, P, C, reg) ==
  LET groupLeft == Left(P, reg, moving[1])
      groupRight == Right(P, reg, moving[Len(moving)])
      groupTop == Top(P, reg, moving[1])
      groupBottom == Bottom(P, C, reg, moving[1])
      nearGroup == /\ a.x >= groupLeft - AnchorThreshold
                   /\ a.x <= groupRight + AnchorThreshold
                   /\ a.y >= groupTop - AnchorThreshold
                   /\ a.y <= groupBottom + AnchorThreshold
      closest == ClosestPanelIdx(moving, a, P, reg)
      anchorY == IF IsBottom(a.id)
                 THEN a.y - OffsetHeight(C, reg, moving[closest]) ELSE a.y
      positions == AnchorLayout(moving, closest, a.x, anchorY, reg)
  IN IF ~nearGroup \/ ~LayoutFits(moving, positions, reg)
     THEN [res |-> NoAnchor, dist |-> 0]
     ELSE [res |-> [found |-> TRUE, anchor |-> a.id, dockPanelIndex |-> closest - 1,
                    positions |-> positions],
           dist |-> Dist2(P, reg, moving[closest], a)]

\* the body of findNearestAnchor's loop for one anchor: the candidate result
\* and its distance, or NoAnchor
AnchorCandidate(moving, a, P, C, reg) ==
  LET groupLeft == Left(P, reg, moving[1])
      groupRight == Right(P, reg, moving[Len(moving)])
      groupTop == Top(P, reg, moving[1])
      groupBottom == Bottom(P, C, reg, moving[1])
      nearGroup == /\ a.x >= groupLeft - AnchorThreshold
                   /\ a.x <= groupRight + AnchorThreshold
                   /\ a.y >= groupTop - AnchorThreshold
                   /\ a.y <= groupBottom + AnchorThreshold
      closest == ClosestPanelIdx(moving, a, P, reg)
      anchorY == IF IsBottom(a.id)
                 THEN a.y - OffsetHeight(C, reg, moving[closest]) ELSE a.y
      positions == AnchorLayout(moving, closest, a.x, anchorY, reg)
      tries == {t \in 1..Len(moving) :
                  LayoutFits(moving, AnchorLayout(moving, t, a.x, anchorY, reg), reg)}
      dist == Dist2(P, reg, moving[closest], a)
  IN IF ~nearGroup THEN [res |-> NoAnchor, dist |-> 0]
     ELSE IF ~LayoutFits(moving, positions, reg)
       THEN IF tries = {} THEN [res |-> NoAnchor, dist |-> 0]
            ELSE LET t == CHOOSE t \in tries : \A u \in tries : t <= u
                 IN [res |-> [found |-> TRUE, anchor |-> a.id, dockPanelIndex |-> t - 1,
                              positions |-> AnchorLayout(moving, t, a.x, anchorY, reg)],
                     dist |-> dist]
     ELSE [res |-> [found |-> TRUE, anchor |-> a.id, dockPanelIndex |-> closest - 1,
                    positions |-> positions],
           dist |-> dist]

\* faulty variant of removeAnchor: the result of findIndex is not tested, and
\* splice(-1, 1) removes the last anchor
removeAnchorNoCheck(list, id) ==
  LET found == {i \in 1..Len(list) : list[i].id = id}
      index == IF found = {} THEN Len(list) ELSE CHOOSE i \in found : \A j \in found : i <= j
  IN [anchors |-> [i \in 1..(Len(list) - 1) |-> IF i < index THEN list[i] ELSE list[i + 1]],
      ok |-> TRUE]

\* AnchorManager.removeAnchor: the anchors after the call and the value returned
removeAnchor(list, id) ==
  LET found == {i \in 1..Len(list) : list[i].id = id}
      index == CHOOSE i \in found : \A j \in found : i <= j
  IN IF found = {} THEN [anchors |-> list, ok |-> FALSE]
     ELSE [anchors |-> [i \in 1..(Len(list) - 1) |->
                          IF i < index THEN list[i] ELSE list[i + 1]],
           ok |-> TRUE]

RECURSIVE BestAnchor(_, _, _, _, _, _, _)
\* the loop of findNearestAnchor over this.anchors (list) from index i
BestAnchor(moving, list, i, best, P, C, reg) ==
  IF i > Len(list) THEN best.res
  ELSE LET c == AnchorCandidate(moving, list[i], P, C, reg)
       IN BestAnchor(moving, list, i + 1,
                     IF c.res.found /\ (~best.res.found \/ c.dist < best.dist)
                     THEN c ELSE best,
                     P, C, reg)

\* findNearestAnchor(movingPanels) of a manager whose anchors are list
findNearestAnchor(moving, list, P, C, reg) ==
  IF Len(moving) = 0 \/ Len(list) = 0 THEN NoAnchor
  ELSE BestAnchor(moving, list, 1, [res |-> NoAnchor, dist |-> 0], P, C, reg)

(* ----------------------------- TabManager ----------------------------- *)

NoDrag == [active |-> FALSE, grabbed |-> None, offsetX |-> 0, offsetY |-> 0,
           initialGroupPositions |-> <<>>, movingPanels |-> <<>>, mode |-> None]

\* the last operation: its name, whether it ran past its guards, the drag mode,
\* and a record of the situation it ran in (None when nothing is recorded)
Op(name, ok, mode) == [op |-> name, ok |-> ok, mode |-> mode, seen |-> None]

\* p is the middle member of a chain A-p-C of registered panels
IsMiddle(p, T, F, reg) ==
  /\ F[p] \in reg /\ T[p] \in reg
  /\ Cardinality({F[p], p, T[p]}) = 3
  /\ T[F[p]] = p /\ F[T[p]] = p

NoResult == [op |-> None]

\* panel objects still referenced: the registered ones and those of the drag
Live(reg, d) == reg \cup Range(d.movingPanels)
\* fields of objects nothing references any more are dropped
Collect(f, reg, d, dflt) ==
  [p \in Ids |-> IF p \in Live(reg, d) THEN f[p] ELSE dflt]

\* offset of the cursor inside the grabbed panel at mouse-down
GrabOffsets == {[dx |-> 10, dy |-> 10]}

\* PanelConfig: the options of addPanel that the model distinguishes;
\* autoHideDelay is None (undefined) or stands for a positive delay
DefaultConfig == [startHidden |-> FALSE, autoHideDelay |-> None, draggable |-> TRUE]

\* createPanelState: the auto-hide fields of the new PanelState
createPanelState(cfg) ==
  [isHidden |-> cfg.startHidden, resolvedAutoHideDelay |-> cfg.autoHideDelay]

(* ------------------- SnapPreview and anchor indicators ----------------- *)

\* the ids of the anchors of the list; every anchor has an indicator
IndicatorIds(list) == {list[i].id : i \in 1..Len(list)}

\* SnapPreview.update(snapTarget): whether the preview is visible afterwards;
\* show() hides it when the target is not in the registry
snapPreviewUpdate(snapTarget, reg) == snapTarget.found /\ snapTarget.targetId \in reg

\* faulty variant of showIndicators: the active class is never removed
showIndicatorsKeepActive(list, activeAnchor, active) ==
  [visible |-> IndicatorIds(list),
   active |-> (active \cap IndicatorIds(list)) \cup (IndicatorIds(list) \cap {activeAnchor})]

\* AnchorManager.showIndicators(activeAnchor): every indicator is visible, the
\* one of activeAnchor is active and no other
showIndicators(list, activeAnchor, active) ==
  [visible |-> IndicatorIds(list), active |-> IndicatorIds(list) \cap {activeAnchor}]

\* AnchorManager.hideIndicators: no indicator is visible or active
hideIndicators == [visible |-> {}, active |-> {}]

(* --------------------------- AutoHideManager -------------------------- *)

\* the auto-hide state an operation works on: [hidden, timers, attached, events]
HideState == [hidden |-> isHidden, timers |-> hideTimers, attached |-> listenersAttached,
              events |-> <<>>]

\* showPanel / hidePanel of Panel: set PanelState.isHidden
showPanel(H, p) == [H EXCEPT ![p] = FALSE]
hidePanel(H, p) == [H EXCEPT ![p] = TRUE]

\* AutoHideManager.clearTimer
clearTimer(hs, id) == [hs EXCEPT !.timers[id] = None]

\* AutoHideManager.scheduleHide
scheduleHide(hs, p, D) ==
  LET c == clearTimer(hs, p)
  IN IF D[p] = None THEN c ELSE [c EXCEPT !.timers[p] = "pending"]

\* AutoHideManager.show, with the panel:show event of the onShow callback
AutoShow(hs, p, trigger) ==
  IF ~hs.hidden[p] THEN hs
  ELSE [hs EXCEPT !.hidden = showPanel(hs.hidden, p),
                  !.events = Append(hs.events, [type |-> "panel:show", panel |-> p,
                                                trigger |-> trigger])]

\* AutoHideManager.hide, with the panel:hide event of the onHide callback
AutoHide(hs, p, trigger) ==
  IF hs.hidden[p] THEN hs
  ELSE [hs EXCEPT !.hidden = hidePanel(hs.hidden, p),
                  !.events = Append(hs.events, [type |-> "panel:hide", panel |-> p,
                                                trigger |-> trigger])]

\* AutoHideManager.initializePanel
initializePanel(hs, p, D) ==
  LET a == IF D[p] # None \/ hs.hidden[p] THEN [hs EXCEPT !.attached = TRUE] ELSE hs
  IN IF ~a.hidden[p] /\ D[p] # None THEN scheduleHide(a, p, D) ELSE a

RECURSIVE ActivityLoop(_, _, _, _)
\* the loop of handleActivity over this.panels.values(), from index i
ActivityLoop(hs, ord, i, D) ==
  IF i > Len(ord) THEN hs
  ELSE LET p == ord[i]
       IN IF D[p] # None \/ hs.hidden[p]
          THEN LET sh == AutoShow(hs, p, "activity")
               IN ActivityLoop(IF D[p] # None THEN scheduleHide(sh, p, D) ELSE sh,
                               ord, i + 1, D)
          ELSE ActivityLoop(hs, ord, i + 1, D)

\* the document listener of mousemove, mousedown and keydown, when attached
handleActivity(hs, ord, D) ==
  IF hs.attached THEN ActivityLoop(hs, ord, 1, D) ELSE hs

\* the activity listener runs if destroy() has not removed it from the document
ActivityNow ==
  IF documentListeners THEN handleActivity(HideState, order, resolvedAutoHideDelay)
  ELSE HideState

\* the state after construction of what the drag styling, the auto-hide
\* manager and the anchor manager own; panels of a drag in progress have
\* their drag z-index
RestInit ==
  /\ zIndex = [p \in Ids \cup Range(order) |->
                IF drag.active /\ p \in Range(drag.movingPanels)
                THEN DragZIndex ELSE DefaultZIndex]
  /\ userSelect = IF drag.active THEN "none" ELSE ""
  /\ isHidden = [p \in Ids \cup Range(order) |-> FALSE]
  /\ resolvedAutoHideDelay = [p \in Ids \cup Range(order) |-> None]
  /\ hideTimers = [p \in Ids \cup Range(order) |-> None]
  /\ listenersAttached = FALSE
  /\ draggable = [p \in Ids \cup Range(order) |-> TRUE]
  /\ snapPreviewVisible = FALSE
  /\ indicatorVisible = IF drag.active THEN IndicatorIds(anchors) ELSE {}
  /\ indicatorActive = {}
  /\ documentListeners = TRUE

Init ==
  /\ order = <<>>
  /\ snappedTo = [p \in Ids |-> None]
  /\ snappedFrom = [p \in Ids |-> None]
  /\ pos = [p \in Ids |-> [x |-> 0, y |-> 0]]
  /\ collapsed = [p \in Ids |-> TRUE]
  /\ drag = NoDrag
  /\ events = <<>>
  /\ last = Op("init", TRUE, None)
  /\ hung = FALSE
  /\ steps = 0
  /\ result = NoResult
  /\ anchors = DefaultAnchors
  /\ RestInit

\* every operation runs to its end before the next one starts, unless it
\* never ends; runs are cut after MaxSteps operations
Step == ~hung /\ steps < MaxSteps /\ steps' = steps + 1
Tick == Step /\ UNCHANGED result

\* TabManager.addPanel with the options cfg, for an id that no live panel
\* object has
AddPanelWith(id, cfg) ==
  /\ Tick
  /\ id \notin Live(Registry, drag)
  /\ order' = Append(order, id)
  /\ snappedTo' = [snappedTo EXCEPT ![id] = None]
  /\ snappedFrom' = [snappedFrom EXCEPT ![id] = None]
  /\ pos' = [pos EXCEPT ![id] = InitialPosition[id]]
  /\ collapsed' = [collapsed EXCEPT ![id] = TRUE]
  /\ zIndex' = [zIndex EXCEPT ![id] = DefaultZIndex]
  /\ draggable' = [draggable EXCEPT ![id] = cfg.draggable]
  /\ LET st == createPanelState(cfg)
         D == [resolvedAutoHideDelay EXCEPT ![id] = st.resolvedAutoHideDelay]
         hs == initializePanel([HideState EXCEPT !.hidden[id] = st.isHidden], id, D)
     IN /\ isHidden' = hs.hidden
        /\ resolvedAutoHideDelay' = D
        /\ hideTimers' = hs.timers
        /\ listenersAttached' = hs.attached
  /\ events' = << [type |-> "panel:added", panel |-> id] >>
  /\ last' = Op("addPanel", TRUE, None)
  /\ UNCHANGED <<drag, hung, userSelect, anchors, overlayVars>>

\* TabManager.addPanel with the default options
AddPanel(id) == AddPanelWith(id, DefaultConfig)

\* TabManager.removePanel
RemovePanel(id) ==
  /\ Tick
  /\ IF id \notin Registry
     THEN /\ last' = Op("removePanel", FALSE, None)
          /\ events' = <<>>
          /\ UNCHANGED <<order, snappedTo, snappedFrom, pos, collapsed, drag, hung,
                         viewVars, hideVars, configVars, overlayVars>>
     ELSE LET hs == clearTimer(HideState, id)
              d == detachFromGroup(id, snappedTo, snappedFrom, Registry)
              ord2 == RemoveAt(order, id)
          IN /\ order' = ord2
             /\ snappedTo' = Collect(d.to, Range(ord2), drag, None)
             /\ snappedFrom' = Collect(d.from, Range(ord2), drag, None)
             /\ pos' = [pos EXCEPT ![id] = [x |-> 0, y |-> 0]]
             /\ collapsed' = [collapsed EXCEPT ![id] = TRUE]
             /\ hideTimers' = hs.timers
             /\ isHidden' = Collect(isHidden, Range(ord2), drag, FALSE)
             /\ resolvedAutoHideDelay' = Collect(resolvedAutoHideDelay, Range(ord2), drag, None)
             /\ zIndex' = Collect(zIndex, Range(ord2), drag, DefaultZIndex)
             /\ draggable' = Collect(draggable, Range(ord2), drag, TRUE)
             /\ events' = << [type |-> "panel:removed", panelId |-> id] >>
             /\ last' = Op("removePanel", TRUE, None)
             /\ UNCHANGED <<drag, hung, userSelect, listenersAttached, anchors, overlayVars>>

\* TabManager.snap
Snap(l, r) ==
  /\ Tick
  /\ events' = <<>>
  /\ IF l \notin Registry \/ r \notin Registry
     THEN /\ last' = Op("snap", FALSE, None)
          /\ UNCHANGED <<order, snappedTo, snappedFrom, pos, collapsed, drag, hung>>
     ELSE LET s == snapPanels(l, r, snappedTo, snappedFrom)
              u == updateSnappedPositions(order, s.to, s.from, pos)
          IN /\ snappedTo' = s.to
             /\ snappedFrom' = s.from
             /\ pos' = IF u.done THEN u.pos ELSE pos
             /\ hung' = ~u.done
             /\ last' = Op("snap", u.done, None)
             /\ UNCHANGED <<order, collapsed, drag>>
  /\ UNCHANGED <<viewVars, hideVars, configVars, overlayVars>>

\* TabManager.detach
Detach(id) ==
  /\ Tick
  /\ IF id \notin Registry
     THEN /\ last' = Op("detach", FALSE, None)
          /\ events' = <<>>
          /\ UNCHANGED <<order, snappedTo, snappedFrom, pos, collapsed, drag, hung>>
     ELSE LET previousGroup == getConnectedGroup(id, snappedTo, snappedFrom, Registry).group
              d == detachFromGroup(id, snappedTo, snappedFrom, Registry)
          IN /\ snappedTo' = d.to
             /\ snappedFrom' = d.from
             /\ events' = << [type |-> "panel:detached", panel |-> id,
                              previousGroup |-> previousGroup] >>
             /\ last' = Op("detach", TRUE, None)
             /\ UNCHANGED <<order, pos, collapsed, drag, hung>>
  /\ UNCHANGED <<viewVars, hideVars, configVars, overlayVars>>

\* TabManager.getSnapChain
GetSnapChain(id) ==
  /\ Step
  /\ result' = [op |-> "getSnapChain", panel |-> id,
                group |-> IF id \notin Registry THEN <<>>
                          ELSE getConnectedGroup(id, snappedTo, snappedFrom, Registry).group]
  /\ events' = <<>>
  /\ last' = Op("getSnapChain", id \in Registry, None)
  /\ UNCHANGED <<order, snappedTo, snappedFrom, pos, collapsed, drag, hung>>
  /\ UNCHANGED <<viewVars, hideVars, configVars, overlayVars>>

\* TabManager.show
Show(id) ==
  /\ Tick
  /\ IF id \notin Registry
     THEN /\ last' = Op("show", FALSE, None)
          /\ events' = <<>>
          /\ UNCHANGED isHidden
     ELSE LET hs == AutoShow(HideState, id, "api")
          IN /\ isHidden' = hs.hidden
             /\ events' = hs.events
             /\ last' = Op("show", TRUE, None)
  /\ UNCHANGED <<order, snappedTo, snappedFrom, pos, collapsed, drag, hung>>
  /\ UNCHANGED <<viewVars, resolvedAutoHideDelay, hideTimers, listenersAttached, configVars, overlayVars>>

\* TabManager.hide
Hide(id) ==
  /\ Tick
  /\ IF id \notin Registry
     THEN /\ last' = Op("hide", FALSE, None)
          /\ events' = <<>>
          /\ UNCHANGED isHidden
     ELSE LET hs == AutoHide(HideState, id, "api")
          IN /\ isHidden' = hs.hidden
             /\ events' = hs.events
             /\ last' = Op("hide", TRUE, None)
  /\ UNCHANGED <<order, snappedTo, snappedFrom, pos, collapsed, drag, hung>>
  /\ UNCHANGED <<viewVars, resolvedAutoHideDelay, hideTimers, listenersAttached, configVars, overlayVars>>

\* TabManager.removeAnchor
RemoveAnchor(id) ==
  /\ Tick
  /\ LET r == removeAnchor(anchors, id)
     IN /\ anchors' = r.anchors
        /\ indicatorVisible' = indicatorVisible \cap IndicatorIds(r.anchors)
        /\ indicatorActive' = indicatorActive \cap IndicatorIds(r.anchors)
        /\ last' = Op("removeAnchor", r.ok, None)
  /\ events' = <<>>
  /\ UNCHANGED <<order, snappedTo, snappedFrom, pos, collapsed, drag, hung>>
  /\ UNCHANGED <<viewVars, hideVars, draggable, snapPreviewVisible, documentListeners>>

\* a keydown event: the document listener of the AutoHideManager
KeyDown ==
  /\ Tick
  /\ LET hs == ActivityNow
     IN /\ isHidden' = hs.hidden
        /\ hideTimers' = hs.timers
        /\ events' = hs.events
  /\ last' = Op("keyDown", listenersAttached /\ documentListeners, None)
  /\ UNCHANGED <<order, snappedTo, snappedFrom, pos, collapsed, drag, hung>>
  /\ UNCHANGED <<viewVars, resolvedAutoHideDelay, listenersAttached, configVars, overlayVars>>

\* the callback of the setTimeout of scheduleHide runs for panel id
HideTimerFires(id) ==
  /\ Tick
  /\ hideTimers[id] = "pending"
  /\ LET hs == AutoHide([HideState EXCEPT !.timers[id] = "fired"], id, "timeout")
     IN /\ isHidden' = hs.hidden
        /\ hideTimers' = hs.timers
        /\ events' = hs.events
  /\ last' = Op("hideTimer", TRUE, None)
  /\ UNCHANGED <<order, snappedTo, snappedFrom, pos, collapsed, drag, hung>>
  /\ UNCHANGED <<viewVars, resolvedAutoHideDelay, listenersAttached, configVars, overlayVars>>

\* TabManager.updatePositions
UpdatePositions ==
  /\ Tick
  /\ LET u == updateSnappedPositions(order, snappedTo, snappedFrom, pos)
     IN /\ pos' = IF u.done THEN u.pos ELSE pos
        /\ hung' = ~u.done
        /\ last' = Op("updatePositions", u.done, None)
  /\ events' = <<>>
  /\ UNCHANGED <<order, snappedTo, snappedFrom, collapsed, drag>>
  /\ UNCHANGED <<viewVars, hideVars, configVars, overlayVars>>

RECURSIVE ChainLinksUnguarded(_, _, _, _, _)
\* faulty variant of ChainLinks: the pairs are linked without the test that
\* both panels are registered
ChainLinksUnguarded(ids, i, T, F, reg) ==
  IF i > Len(ids) - 1 THEN [to |-> T, from |-> F]
  ELSE LET s == snapPanels(ids[i], ids[i + 1], T, F)
       IN ChainLinksUnguarded(ids, i + 1, s.to, s.from, reg)

RECURSIVE ChainLinks(_, _, _, _, _)
\* the loop of createSnapChain from index i
ChainLinks(ids, i, T, F, reg) ==
  IF i > Len(ids) - 1 THEN [to |-> T, from |-> F]
  ELSE IF ids[i] \in reg /\ ids[i + 1] \in reg
    THEN LET s == snapPanels(ids[i], ids[i + 1], T, F)
         IN ChainLinks(ids, i + 1, s.to, s.from, reg)
    ELSE ChainLinks(ids, i + 1, T, F, reg)

\* TabManager.createSnapChain
CreateSnapChain(ids) ==
  /\ Tick
  /\ LET c == ChainLinks(ids, 1, snappedTo, snappedFrom, Registry)
     IN /\ snappedTo' = c.to
        /\ snappedFrom' = c.from
  /\ events' = <<>>
  /\ last' = Op("createSnapChain", TRUE, None)
  /\ UNCHANGED <<order, pos, collapsed, drag, hung>>
  /\ UNCHANGED <<viewVars, hideVars, configVars, overlayVars>>

\* the body of the click listener of the collapse button: toggleCollapse,
\* updateSnappedPositions, emit
CollapseHandler(id) ==
  /\ id \in Registry
  /\ LET C2 == [collapsed EXCEPT ![id] = ~collapsed[id]]
         u == updateSnappedPositions(order, snappedTo, snappedFrom, pos)
     IN /\ collapsed' = C2
        /\ pos' = IF u.done THEN u.pos ELSE pos
        /\ hung' = ~u.done
        /\ events' = IF u.done
                     THEN << [type |-> "panel:collapse", panel |-> id,
                              isCollapsed |-> C2[id]] >>
                     ELSE <<>>
        /\ last' = Op("collapse", u.done, None)
  /\ UNCHANGED <<order, snappedTo, snappedFrom, drag>>
  /\ UNCHANGED <<viewVars, hideVars, configVars, overlayVars>>

\* the click listener of the collapse button (setupPanelEvents)
CollapseClick(id) == Tick /\ CollapseHandler(id)

(* ----------------------------- DragManager ---------------------------- *)

\* element.style.left / top of a panel that is still in the document
SetPos(P, reg, p, x, y) ==
  IF p \in reg THEN [P EXCEPT ![p] = [x |-> x, y |-> y]] ELSE P

\* faulty variant of Clamp: the upper limit is not applied
ClampLow(v, hi) == Max(0, v)

\* Math.max(0, Math.min(v, hi))
Clamp(v, hi) == Max(0, Min(v, hi))

\* faulty variant of MovingPanels: the whole group moves in both modes
MovingPanelsGroup(p, mode, connectedPanels) == connectedPanels

\* the moving set of startDrag: the grabbed panel alone in 'single' mode
MovingPanels(p, mode, connectedPanels) ==
  IF mode = "single" THEN <<p>> ELSE connectedPanels

\* faulty variant of DragLinks: the grabbed panel is detached in both modes
DragLinksDetached(p, mode, T, F, reg) == detachFromGroup(p, T, F, reg)

\* the links after startDrag: the grabbed panel is detached in 'single' mode
DragLinks(p, mode, T, F, reg) ==
  IF mode = "single" THEN detachFromGroup(p, T, F, reg) ELSE [to |-> T, from |-> F]

\* faulty variant of RestoreZIndex: the z-index is left as it is
RestoreZIndexMissing(Z, moving) == Z

\* handleMouseUp: setPanelZIndex(p, getDefaultZIndex(p)) for the moving panels
RestoreZIndex(Z, moving) ==
  [p \in DOMAIN Z |-> IF p \in Range(moving) THEN DefaultZIndex ELSE Z[p]]

\* startDrag: setPanelZIndex(p, getDragZIndex(p)) for the moving panels
RaiseZIndex(Z, moving) ==
  [p \in DOMAIN Z |-> IF p \in Range(moving) THEN DragZIndex ELSE Z[p]]

\* DragManager.startDrag, called by the mousedown listeners of the detach
\* grip ('single') and of the drag handle ('group'), then handleDragStart
StartDrag(p, mode, off) ==
  /\ Tick
  /\ p \in Registry
  /\ LET reg == Registry
         connectedPanels == getConnectedGroup(p, snappedTo, snappedFrom, reg).group
         initialGroupPositions ==
           [q \in Range(connectedPanels) |-> [x |-> Left(pos, reg, q), y |-> Top(pos, reg, q)]]
         d == DragLinks(p, mode, snappedTo, snappedFrom, reg)
         movingPanels == MovingPanels(p, mode, connectedPanels)
         nd == [active |-> TRUE, grabbed |-> p, offsetX |-> off.dx, offsetY |-> off.dy,
                initialGroupPositions |-> initialGroupPositions,
                movingPanels |-> movingPanels, mode |-> mode]
     IN /\ drag' = nd
        /\ snappedTo' = Collect(d.to, reg, nd, None)
        /\ snappedFrom' = Collect(d.from, reg, nd, None)
        /\ zIndex' = Collect(RaiseZIndex(zIndex, movingPanels), reg, nd, DefaultZIndex)
        /\ isHidden' = Collect(isHidden, reg, nd, FALSE)
        /\ resolvedAutoHideDelay' = Collect(resolvedAutoHideDelay, reg, nd, None)
        /\ draggable' = Collect(draggable, reg, nd, TRUE)
        /\ events' = << [type |-> "drag:start", panel |-> p, mode |-> mode,
                         movingPanels |-> movingPanels] >>
        /\ last' = [Op("startDrag", TRUE, mode) EXCEPT
                       !.seen = IF IsMiddle(p, snappedTo, snappedFrom, reg)
                                THEN "middle" ELSE None]
  /\ userSelect' = "none"
  /\ LET ind == showIndicators(anchors, None, indicatorActive)
     IN indicatorVisible' = ind.visible /\ indicatorActive' = ind.active
  /\ UNCHANGED <<order, pos, collapsed, hung, hideTimers, listenersAttached, anchors,
                 snapPreviewVisible, documentListeners>>

RECURSIVE MoveOthersByCursor(_, _, _, _, _, _)
\* faulty variant of MoveOthers: the other panels are put at the grabbed
\* panel's displacement itself, not at their own initial position plus it
MoveOthersByCursor(d, i, deltaX, deltaY, P, st) ==
  IF i > Len(d.movingPanels) THEN P
  ELSE LET p == d.movingPanels[i]
           newX == Clamp(deltaX, WindowWidth - OffsetWidth(st.reg, p))
           newY == Clamp(deltaY, WindowHeight - OffsetHeight(st.collapsed, st.reg, p))
       IN IF p = d.grabbed THEN MoveOthersByCursor(d, i + 1, deltaX, deltaY, P, st)
          ELSE MoveOthersByCursor(d, i + 1, deltaX, deltaY,
                                  SetPos(P, st.reg, p, newX, newY), st)

RECURSIVE MoveOthers(_, _, _, _, _, _)
\* the loop of handleMouseMove over the other moving panels, from index i
MoveOthers(d, i, deltaX, deltaY, P, st) ==
  IF i > Len(d.movingPanels) THEN P
  ELSE LET p == d.movingPanels[i]
           initialPos == d.initialGroupPositions[p]
           newX == Clamp(initialPos.x + deltaX, WindowWidth - OffsetWidth(st.reg, p))
           newY == Clamp(initialPos.y + deltaY,
                         WindowHeight - OffsetHeight(st.collapsed, st.reg, p))
       IN IF p = d.grabbed THEN MoveOthers(d, i + 1, deltaX, deltaY, P, st)
          ELSE MoveOthers(d, i + 1, deltaX, deltaY, SetPos(P, st.reg, p, newX, newY), st)

\* the positions after the move part of handleMouseMove (lines 130-163)
DragPositions(d, cx, cy, P, C, reg) ==
  LET g == d.grabbed
      clampedX == Clamp(cx - d.offsetX, WindowWidth - OffsetWidth(reg, g))
      clampedY == Clamp(cy - d.offsetY, WindowHeight - OffsetHeight(C, reg, g))
      P1 == SetPos(P, reg, g, clampedX, clampedY)
  IN [clamped |-> [x |-> clampedX, y |-> clampedY],
      pos |-> IF d.mode = "group" /\ Len(d.movingPanels) > 1
              THEN MoveOthers(d, 1, clampedX - d.initialGroupPositions[g].x,
                              clampedY - d.initialGroupPositions[g].y, P1,
                              [reg |-> reg, collapsed |-> C])
              ELSE P1]

\* faulty variant of AnchorIfNoSnap: the anchors are searched in every case
AnchorAlways(snapTarget, moving, P, C, reg) ==
  findNearestAnchor(moving, anchors, P, C, reg)

\* the anchor search of handleMouseMove / handleMouseUp: only if no panel snap
AnchorIfNoSnap(snapTarget, moving, P, C, reg) ==
  IF snapTarget.found THEN NoAnchor
  ELSE findNearestAnchor(moving, anchors, P, C, reg)

\* the mousemove listeners of the document: DragManager.handleMouseMove with
\* TabManager.handleDragMove, then AutoHideManager.handleActivity
MouseMove(cx, cy) ==
  /\ Tick
  /\ LET hs == ActivityNow
     IN /\ isHidden' = hs.hidden
        /\ hideTimers' = hs.timers
        /\ IF ~(drag.active /\ documentListeners)
           THEN /\ events' = hs.events
                /\ last' = Op("mouseMove", FALSE, None)
                /\ UNCHANGED <<pos, snapPreviewVisible, indicatorVisible, indicatorActive>>
           ELSE LET m == DragPositions(drag, cx, cy, pos, collapsed, Registry)
                    snapTarget == findSnapTarget(drag.movingPanels, order, snappedTo,
                                                 snappedFrom, m.pos)
                    anchorResult == AnchorIfNoSnap(snapTarget, drag.movingPanels, m.pos,
                                                   collapsed, Registry)
                    ind == showIndicators(anchors, anchorResult.anchor, indicatorActive)
                IN /\ pos' = m.pos
                   /\ snapPreviewVisible' = snapPreviewUpdate(snapTarget, Registry)
                   /\ indicatorVisible' = ind.visible
                   /\ indicatorActive' = ind.active
                   /\ events' = << [type |-> "drag:move", panel |-> drag.grabbed,
                                    position |-> m.clamped, snapTarget |-> snapTarget,
                                    anchorTarget |-> anchorResult] >> \o hs.events
                   /\ last' = [Op("mouseMove", TRUE, drag.mode) EXCEPT
                                  !.seen = IF snapTarget.found /\
                                              findNearestAnchor(drag.movingPanels, anchors,
                                                                m.pos, collapsed,
                                                                Registry).found
                                           THEN "both" ELSE None]
  /\ UNCHANGED <<order, snappedTo, snappedFrom, collapsed, drag, hung>>
  /\ UNCHANGED <<resolvedAutoHideDelay, listenersAttached, viewVars, configVars,
                 documentListeners>>

RECURSIVE ApplyAnchor(_, _, _, _, _)
\* the loop of handleMouseUp that writes the anchor layout, from index i
ApplyAnchor(moving, i, positions, P, reg) ==
  IF i > Len(moving) THEN P
  ELSE ApplyAnchor(moving, i + 1, positions,
                   SetPos(P, reg, moving[i], positions[i].x, positions[i].y), reg)

\* faulty variant of DragEndEvents: handleDragEnd emits drag:end alone
DragEndEventsOnly(d, snapTarget, anchorResult, P, reg) ==
  << [type |-> "drag:end", panel |-> d.grabbed,
      finalPosition |-> [x |-> Left(P, reg, d.grabbed), y |-> Top(P, reg, d.grabbed)],
      snappedToPanel |-> snapTarget.found,
      snappedToAnchor |-> anchorResult.found] >>

\* faulty variant of DragEndEvents: handleDragEnd emits no drag:end
DragEndEventsSilent(d, snapTarget, anchorResult, P, reg) ==
  IF snapTarget.found
  THEN IF snapTarget.targetId \in reg
       THEN << [type |-> "snap:panel", movingPanels |-> d.movingPanels,
                targetPanel |-> snapTarget.targetId, side |-> snapTarget.side] >>
       ELSE <<>>
  ELSE IF anchorResult.found
       THEN << [type |-> "snap:anchor", movingPanels |-> d.movingPanels,
                anchor |-> anchorResult.anchor] >>
       ELSE <<>>

\* the events of TabManager.handleDragEnd
DragEndEvents(d, snapTarget, anchorResult, P, reg) ==
  (IF snapTarget.found
   THEN IF snapTarget.targetId \in reg
        THEN << [type |-> "snap:panel", movingPanels |-> d.movingPanels,
                 targetPanel |-> snapTarget.targetId, side |-> snapTarget.side] >>
        ELSE <<>>
   ELSE IF anchorResult.found
        THEN << [type |-> "snap:anchor", movingPanels |-> d.movingPanels,
                 anchor |-> anchorResult.anchor] >>
        ELSE <<>>)
  \o << [type |-> "drag:end", panel |-> d.grabbed,
         finalPosition |-> [x |-> Left(P, reg, d.grabbed), y |-> Top(P, reg, d.grabbed)],
         snappedToPanel |-> snapTarget.found,
         snappedToAnchor |-> anchorResult.found] >>

\* faulty variant of EndDrag: the session is kept
EndDragKept(d) == d

\* the last statement of handleMouseUp: this.activeDrag = null
EndDrag(d) == NoDrag

\* DragManager.handleMouseUp, then TabManager.handleDragEnd
MouseUp ==
  /\ Tick
  /\ IF ~(drag.active /\ documentListeners)
     THEN /\ events' = <<>>
          /\ last' = Op("mouseUp", FALSE, None)
          /\ UNCHANGED <<snappedTo, snappedFrom, pos, drag, viewVars, isHidden,
                         resolvedAutoHideDelay, draggable, snapPreviewVisible,
                         indicatorVisible, indicatorActive>>
     ELSE LET moving == drag.movingPanels
              reg == Registry
              snapTarget == findSnapTarget(moving, order, snappedTo, snappedFrom, pos)
              anchorResult == AnchorIfNoSnap(snapTarget, moving, pos, collapsed, reg)
              s == IF snapTarget.found
                   THEN snapPanelsToTarget(moving, snapTarget, order, snappedTo,
                                           snappedFrom, pos)
                   ELSE [to |-> snappedTo, from |-> snappedFrom,
                         pos |-> IF anchorResult.found
                                 THEN ApplyAnchor(moving, 1, anchorResult.positions, pos, reg)
                                 ELSE pos]
          IN /\ snappedTo' = Collect(s.to, reg, NoDrag, None)
             /\ snappedFrom' = Collect(s.from, reg, NoDrag, None)
             /\ pos' = s.pos
             /\ events' = DragEndEvents(drag, snapTarget, anchorResult, s.pos, reg)
             /\ last' = [Op("mouseUp", TRUE, drag.mode) EXCEPT
                            !.seen = IF snapTarget.found /\
                                        findNearestAnchor(moving, anchors, pos,
                                                          collapsed, reg).found
                                     THEN "both" ELSE None]
             /\ zIndex' = Collect(RestoreZIndex(zIndex, moving), reg, NoDrag, DefaultZIndex)
             /\ userSelect' = ""
             /\ isHidden' = Collect(isHidden, reg, NoDrag, FALSE)
             /\ resolvedAutoHideDelay' = Collect(resolvedAutoHideDelay, reg, NoDrag, None)
             /\ draggable' = Collect(draggable, reg, NoDrag, TRUE)
             /\ drag' = EndDrag(drag)
             /\ snapPreviewVisible' = FALSE
             /\ indicatorVisible' = hideIndicators.visible
             /\ indicatorActive' = hideIndicators.active
  /\ UNCHANGED <<order, collapsed, hung, hideTimers, listenersAttached, anchors,
                 documentListeners>>

\* faulty variant of destroyTimers: the timers are left as they are
destroyTimersKept(T) == T

\* AutoHideManager.destroy: clearTimeout for every timer, then hideTimers.clear()
destroyTimers(T) == [p \in DOMAIN T |-> None]

\* TabManager.destroy: DragManager.destroy removes the document's mousemove and
\* mouseup listeners, AnchorManager.destroy removes the indicators and empties
\* the anchors, SnapPreview.destroy removes the preview element,
\* AutoHideManager.destroy removes its listeners and clears the timers; then
\* the panels' elements are removed and the Map is cleared
Destroy ==
  /\ Tick
  /\ documentListeners' = FALSE
  /\ anchors' = <<>>
  /\ indicatorVisible' = {}
  /\ indicatorActive' = {}
  /\ snapPreviewVisible' = FALSE
  /\ hideTimers' = destroyTimers(hideTimers)
  /\ order' = <<>>
  /\ pos' = [p \in DOMAIN pos |-> [x |-> 0, y |-> 0]]
  /\ collapsed' = [p \in DOMAIN collapsed |-> TRUE]
  /\ snappedTo' = Collect(snappedTo, {}, drag, None)
  /\ snappedFrom' = Collect(snappedFrom, {}, drag, None)
  /\ zIndex' = Collect(zIndex, {}, drag, DefaultZIndex)
  /\ isHidden' = Collect(isHidden, {}, drag, FALSE)
  /\ resolvedAutoHideDelay' = Collect(resolvedAutoHideDelay, {}, drag, None)
  /\ draggable' = Collect(draggable, {}, drag, TRUE)
  /\ events' = <<>>
  /\ last' = Op("destroy", TRUE, None)
  /\ UNCHANGED <<drag, hung, userSelect, listenersAttached>>

(* --------------------------- specification ---------------------------- *)

\* the id lists the host application passes to createSnapChain
ChainInputs == {s \in [1..Cardinality(Ids) -> Ids] : NoDup(s)}

\* one operation of the host application or one input event
Next ==
  \/ \E id \in Ids : AddPanel(id)
  \/ \E id \in Ids : RemovePanel(id)
  \/ \E l, r \in Ids : Snap(l, r)
  \/ \E id \in Ids : Detach(id)
  \/ UpdatePositions
  \/ \E ids \in ChainInputs : CreateSnapChain(ids)
  \/ \E id \in Ids : CollapseClick(id)
  \/ \E p \in Ids, mode \in {"single", "group"}, off \in GrabOffsets : StartDrag(p, mode, off)
  \/ \E c \in CursorPoints : MouseMove(c.x, c.y)
  \/ MouseUp

Spec == Init /\ [][Next]_vars

(* ------------- the API of TabManager with configured panels ----------- *)

\* the options the host application passes to addPanel
PanelConfigs ==
  {DefaultConfig,
   [startHidden |-> TRUE, autoHideDelay |-> None, draggable |-> TRUE],
   [startHidden |-> FALSE, autoHideDelay |-> "delay", draggable |-> TRUE],
   [startHidden |-> TRUE, autoHideDelay |-> "delay", draggable |-> FALSE]}

\* the ids the host application passes to removeAnchor
AnchorIdInputs == {"bottom-right", "no-such-anchor"}

\* TabManager.addPanel with options
AddPanelConfigured(id, cfg) == AddPanelWith(id, cfg)

ApiNext ==
  \/ \E id \in Ids, cfg \in PanelConfigs : AddPanelConfigured(id, cfg)
  \/ \E id \in Ids : RemovePanel(id)
  \/ \E l, r \in Ids : Snap(l, r)
  \/ \E id \in Ids : Detach(id)
  \/ \E id \in Ids : GetSnapChain(id)
  \/ \E id \in Ids : Show(id)
  \/ \E id \in Ids : Hide(id)
  \/ \E id \in AnchorIdInputs : RemoveAnchor(id)
  \/ KeyDown
  \/ \E id \in Ids : HideTimerFires(id)

SpecApi == Init /\ [][ApiNext]_vars

(* ------------- mouse-downs on panels added with options --------------- *)

ConfiguredNext ==
  \/ \E id \in Ids, cfg \in PanelConfigs : AddPanelConfigured(id, cfg)
  \/ \E l, r \in Ids : Snap(l, r)
  \/ \E p \in Ids, mode \in {"single", "group"}, off \in GrabOffsets : StartDrag(p, mode, off)
  \/ MouseUp

SpecConfigured == Init /\ [][ConfiguredNext]_vars

(* ------------- a manager from construction to destroy() --------------- *)

\* the options the host application passes to addPanel
LifeConfigs ==
  {DefaultConfig, [startHidden |-> FALSE, autoHideDelay |-> "delay", draggable |-> TRUE]}

\* panels are added and removed, dragged, hidden by their timers, and the
\* manager is destroyed; the host application calls nothing after destroy(),
\* the mouse goes on moving
LifeNext ==
  \/ documentListeners /\ \E id \in Ids, cfg \in LifeConfigs : AddPanelConfigured(id, cfg)
  \/ documentListeners /\ \E id \in Ids : RemovePanel(id)
  \/ \E p \in Ids, mode \in {"single", "group"}, off \in GrabOffsets : StartDrag(p, mode, off)
  \/ \E c \in CursorPoints : MouseMove(c.x, c.y)
  \/ MouseUp
  \/ \E id \in Ids : HideTimerFires(id)
  \/ documentListeners /\ Destroy

SpecLife == Init /\ [][LifeNext]_vars

(* ------------- the link API on a registry of MaxPanels panels --------- *)

\* the manager after addPanel was called for every id, in the order of AllIds
LinksInit ==
  /\ order = SubSeq(AllIds, 1, MaxPanels)
  /\ snappedTo = [p \in Ids |-> None]
  /\ snappedFrom = [p \in Ids |-> None]
  /\ pos = [p \in Ids |-> InitialPosition[p]]
  /\ collapsed = [p \in Ids |-> TRUE]
  /\ drag = NoDrag
  /\ events = <<>>
  /\ last = Op("init", TRUE, None)
  /\ hung = FALSE
  /\ steps = 0
  /\ result = NoResult
  /\ anchors = DefaultAnchors
  /\ RestInit

LinksNext ==
  \/ \E id \in Ids : RemovePanel(id)
  \/ \E l, r \in Ids : Snap(l, r)
  \/ \E id \in Ids : Detach(id)
  \/ \E ids \in ChainInputs : CreateSnapChain(ids)

SpecLinks == LinksInit /\ [][LinksNext]_vars

(* ------------- drags on a registry of MaxPanels panels ---------------- *)

\* x of the second panel: 20 less than one panel width from the first panel,
\* or 20 more
DragSecondXs == {PanelWidth - 20, PanelWidth + 20}

\* where the host application has placed the panels before the first drag
DragStartPosition(x2) ==
  [p \in Ids |-> CASE p = "p1" -> [x |-> 0, y |-> 0]
                   [] p = "p2" -> [x |-> x2, y |-> 0]
                   [] p = "p3" -> [x |-> 2 * PanelWidth + 50, y |-> 0]
                   [] OTHER -> [x |-> 0, y |-> 300]]

\* the manager after addPanel was called for every id, with no link set
DragsInit ==
  /\ order = SubSeq(AllIds, 1, MaxPanels)
  /\ snappedTo = [p \in Ids |-> None]
  /\ snappedFrom = [p \in Ids |-> None]
  /\ \E x2 \in DragSecondXs : pos = DragStartPosition(x2)
  /\ collapsed = [p \in Ids |-> TRUE]
  /\ drag = NoDrag
  /\ events = <<>>
  /\ last = Op("init", TRUE, None)
  /\ hung = FALSE
  /\ steps = 0
  /\ result = NoResult
  /\ anchors = DefaultAnchors
  /\ RestInit

\* the one API call of this machine chains the first two panels
DragsNext ==
  \/ Snap("p1", "p2")
  \/ \E p \in Ids, mode \in {"single", "group"}, off \in GrabOffsets : StartDrag(p, mode, off)
  \/ \E c \in CursorPoints : MouseMove(c.x, c.y)
  \/ MouseUp

SpecDrags == DragsInit /\ [][DragsNext]_vars

(* ------------- the engine functions called directly (index.ts) -------- *)

\* findSnapTarget called directly: p1 (alone, or followed by p3) is the moving
\* group and p2 the only candidate; p1 is placed around the two docking
\* positions of p2
SnapTargetPosition == [x |-> 700, y |-> 200]

\* distances of the moving group from a docking x, around the threshold
SnapOffsetsX == {0 - SnapThreshold - 1, 0 - SnapThreshold, 1 - SnapThreshold, 0,
                 SnapThreshold - 1, SnapThreshold, SnapThreshold + 1}

\* distances of the moving group's top from the candidate's top
SnapOffsetsY == {0 - 2 * SnapThreshold, 1 - 2 * SnapThreshold, 0,
                 2 * SnapThreshold - 1, 2 * SnapThreshold}

\* the id p2 is linked to when one of its sides is taken; the panel itself is
\* not in the registry, so that p2 stays the only candidate
SnapNeighbour == "p4"

SnapMovingGroups == {<<"p1">>, <<"p1", "p3">>}

SnapInit ==
  /\ \E moving \in SnapMovingGroups, dx \in SnapOffsetsX, dy \in SnapOffsetsY,
        side \in {"left", "right"} :
       LET dock == IF side = "left"
                   THEN SnapTargetPosition.x - Len(moving) * PanelWidth
                          - (Len(moving) - 1) * PanelGap - PanelGap
                   ELSE SnapTargetPosition.x + PanelWidth + PanelGap
       IN /\ order = moving \o <<"p2">>
          /\ drag = [NoDrag EXCEPT !.active = TRUE, !.grabbed = "p1",
                                   !.movingPanels = moving, !.mode = "group"]
          /\ pos = [p \in Ids |->
                     IF p = "p2" THEN SnapTargetPosition
                     ELSE IF p = "p1"
                       THEN [x |-> dock + dx, y |-> SnapTargetPosition.y + dy]
                     ELSE IF p \in Range(moving)
                       THEN [x |-> dock + dx + PanelWidth + PanelGap,
                             y |-> SnapTargetPosition.y + dy]
                     ELSE [x |-> 0, y |-> 0]]
  /\ snappedTo \in [Ids -> {None, SnapNeighbour}]
  /\ snappedFrom \in [Ids -> {None, SnapNeighbour}]
  /\ \A p \in Ids \ {"p2"} : snappedTo[p] = None /\ snappedFrom[p] = None
  /\ collapsed = [p \in Ids |-> TRUE]
  /\ events = <<>>
  /\ last = Op("init", TRUE, None)
  /\ hung = FALSE
  /\ steps = 0
  /\ result = NoResult
  /\ anchors = DefaultAnchors
  /\ RestInit

\* findSnapTarget(movingPanels, panels, config)
CallFindSnapTarget ==
  /\ result' = [op |-> "findSnapTarget",
                target |-> findSnapTarget(drag.movingPanels, order, snappedTo,
                                          snappedFrom, pos)]
  /\ UNCHANGED <<order, snappedTo, snappedFrom, pos, collapsed, drag, events, last,
                 hung, steps>>
  /\ UNCHANGED <<viewVars, hideVars, configVars, overlayVars>>

SnapNext == CallFindSnapTarget

SpecSnap == SnapInit /\ [][SnapNext]_vars

\* A.snappedTo = B.id iff B.snappedFrom = A.id, for all registered A and B
LinkSymmetry(T, F, reg) == \A a, b \in reg : (T[a] = b) <=> (F[b] = a)

\* registries of the direct calls: all panels registered, or p3 missing
ChainRegistries == {<<"p1", "p2", "p3">>, <<"p1", "p2">>}

\* any assignment of link values to the registered panels: asymmetric links,
\* self-links, cycles and ids missing from the registry included
ChainInit ==
  /\ order \in ChainRegistries
  /\ snappedTo \in [Ids -> IdOrNone]
  /\ snappedFrom \in [Ids -> IdOrNone]
  /\ \A p \in Ids \ Range(order) : snappedTo[p] = None /\ snappedFrom[p] = None
  /\ pos = [p \in Ids |-> [x |-> 0, y |-> 0]]
  /\ collapsed = [p \in Ids |-> TRUE]
  /\ drag = NoDrag
  /\ events = <<>>
  /\ last = Op("init", TRUE, None)
  /\ hung = FALSE
  /\ steps = 0
  /\ result = NoResult
  /\ anchors = DefaultAnchors
  /\ RestInit

\* getConnectedGroup(p, panels)
CallGetConnectedGroup(p) ==
  /\ p \in Registry
  /\ LET g == getConnectedGroup(p, snappedTo, snappedFrom, Registry)
     IN result' = [op |-> "getConnectedGroup", panel |-> p, group |-> g.group,
                   done |-> g.done]
  /\ UNCHANGED <<order, snappedTo, snappedFrom, pos, collapsed, drag, events, last,
                 hung, steps>>
  /\ UNCHANGED <<viewVars, hideVars, configVars, overlayVars>>

\* areInSameChain(a, b, panels)
CallAreInSameChain(a, b) ==
  /\ a \in Registry /\ b \in Registry
  /\ result' = [op |-> "areInSameChain", panel |-> a, other |-> b,
                same |-> areInSameChain(a, b, snappedTo, snappedFrom, Registry)]
  /\ UNCHANGED <<order, snappedTo, snappedFrom, pos, collapsed, drag, events, last,
                 hung, steps>>
  /\ UNCHANGED <<viewVars, hideVars, configVars, overlayVars>>

\* detachFromGroup(p, panels); left and right are p's link values before the
\* call, symmetric tells whether the links were symmetric before the call
CallDetachFromGroup(p) ==
  /\ p \in Registry
  /\ LET d == detachFromGroup(p, snappedTo, snappedFrom, Registry)
     IN /\ snappedTo' = d.to
        /\ snappedFrom' = d.from
  /\ result' = [op |-> "detachFromGroup", panel |-> p, left |-> snappedFrom[p],
                right |-> snappedTo[p],
                symmetric |-> LinkSymmetry(snappedTo, snappedFrom, Registry)]
  /\ UNCHANGED <<order, pos, collapsed, drag, events, last, hung, steps>>
  /\ UNCHANGED <<viewVars, hideVars, configVars, overlayVars>>

ChainNext ==
  \/ \E p \in Ids : CallGetConnectedGroup(p)
  \/ \E a, b \in Ids : CallAreInSameChain(a, b)
  \/ \E p \in Ids : CallDetachFromGroup(p)

SpecChain == ChainInit /\ [][ChainNext]_vars

\* unsnap(l, r) called directly on two registered panels
CallUnsnap(l, r) ==
  /\ l \in Registry /\ r \in Registry
  /\ LET u == unsnap(l, r, snappedTo, snappedFrom)
     IN /\ snappedTo' = u.to
        /\ snappedFrom' = u.from
  /\ result' = [op |-> "unsnap", left |-> l, right |-> r,
                linked |-> snappedTo[l] = r /\ snappedFrom[r] = l,
                symmetric |-> LinkSymmetry(snappedTo, snappedFrom, Registry)]
  /\ UNCHANGED <<order, pos, collapsed, drag, events, last, hung, steps>>
  /\ UNCHANGED <<viewVars, hideVars, configVars, overlayVars>>

UnsnapNext == \E l, r \in Ids : CallUnsnap(l, r)

SpecUnsnap == ChainInit /\ [][UnsnapNext]_vars

(* ------------------------------ claims -------------------------------- *)

RECURSIVE Follow(_, _, _, _)
\* the panel reached from p by k links of f, None when the links end before
Follow(f, reg, p, k) ==
  IF k = 0 THEN p
  ELSE IF f[p] = None \/ f[p] \notin reg THEN None
  ELSE Follow(f, reg, f[p], k - 1)

\* following the links of f from a registered panel never comes back to it
Acyclic(f, reg) ==
  \A p \in reg : \A k \in 1..Cardinality(reg) : Follow(f, reg, p, k) # p

\* no two distinct panels share a snappedTo target or a snappedFrom source
NoBranching(T, F, reg) ==
  \A a, b \in reg : a # b =>
    /\ T[a] # None => T[a] # T[b]
    /\ F[a] # None => F[a] # F[b]

\* every link names a registered panel
NoDangling(T, F, reg) ==
  \A p \in reg : T[p] \in reg \cup {None} /\ F[p] \in reg \cup {None}

\* symmetric acyclic links: every chain is a simple path
WellFormed(T, F, reg) ==
  /\ LinkSymmetry(T, F, reg)
  /\ NoDangling(T, F, reg)
  /\ Acyclic(T, reg)
  /\ Acyclic(F, reg)

\* C1: link symmetry holds whenever a public operation has completed
C1_LinkSymmetry == ~hung => LinkSymmetry(snappedTo, snappedFrom, Registry)

\* C2: whenever a public operation has completed the links have no self-link,
\* no cycle and no two panels with the same target or the same source
C2_NoBranchNoCycle ==
  ~hung =>
    /\ Acyclic(snappedTo, Registry)
    /\ Acyclic(snappedFrom, Registry)
    /\ NoBranching(snappedTo, snappedFrom, Registry)

\* C3: no call of snap, updatePositions or the collapse handler fails to end,
\* and in every reachable link state the walks of updateSnappedPositions,
\* getLeftmostPanel and getRightmostPanel end
C3_WalksTerminate ==
  /\ ~hung
  /\ updateSnappedPositions(order, snappedTo, snappedFrom, pos).done
  /\ \A p \in Registry :
       /\ getLeftmostPanel(p, snappedFrom, Registry).done
       /\ getRightmostPanel(p, snappedTo, Registry).done

\* C4: for every assignment of link values getConnectedGroup(p) ends and
\* returns a list that contains p and no panel twice
C4_GroupTerminates ==
  /\ \A p \in Registry :
       LET g == getConnectedGroup(p, snappedTo, snappedFrom, Registry)
       IN g.done /\ p \in Range(g.group) /\ NoDup(g.group)
  /\ result.op = "getConnectedGroup" =>
       result.done /\ result.panel \in Range(result.group) /\ NoDup(result.group)

\* C4 witness: getConnectedGroup was called on links with a cycle, an
\* asymmetric link and an id missing from the registry
C4_Witness ==
  /\ result.op = "getConnectedGroup"
  /\ Len(result.group) >= 2
  /\ ~Acyclic(snappedTo, Registry)
  /\ ~LinkSymmetry(snappedTo, snappedFrom, Registry)
  /\ ~NoDangling(snappedTo, snappedFrom, Registry)

\* g is a whole chain, left to right
IsChain(g, T, F) ==
  /\ Len(g) >= 1
  /\ NoDup(g)
  /\ F[g[1]] = None
  /\ T[g[Len(g)]] = None
  /\ \A i \in 1..(Len(g) - 1) : T[g[i]] = g[i + 1] /\ F[g[i + 1]] = g[i]

RECURSIVE Closure(_, _, _, _)
\* the panels joined to those of S by links in either direction
Closure(S, T, F, reg) ==
  LET S2 == (S \cup {T[x] : x \in S} \cup {F[x] : x \in S}) \cap reg
  IN IF S2 = S THEN S ELSE Closure(S2, T, F, reg)

\* C5: on symmetric acyclic links getConnectedGroup returns the whole chain,
\* left to right, whichever member is asked, and areInSameChain(a, b) is true
\* exactly for the members b of a's chain
C5_ChainRoundTrip ==
  WellFormed(snappedTo, snappedFrom, Registry) =>
    /\ \A p \in Registry :
         LET g == getConnectedGroup(p, snappedTo, snappedFrom, Registry).group
         IN /\ IsChain(g, snappedTo, snappedFrom)
            /\ p \in Range(g)
            /\ \A q \in Range(g) :
                 getConnectedGroup(q, snappedTo, snappedFrom, Registry).group = g
    /\ \A a, b \in Registry :
         /\ areInSameChain(a, b, snappedTo, snappedFrom, Registry)
              <=> b \in Closure({a}, snappedTo, snappedFrom, Registry)
         /\ areInSameChain(a, b, snappedTo, snappedFrom, Registry)
              <=> areInSameChain(b, a, snappedTo, snappedFrom, Registry)
    /\ result.op = "getConnectedGroup" =>
         IsChain(result.group, snappedTo, snappedFrom) /\ result.panel \in Range(result.group)
    /\ result.op = "areInSameChain" =>
         (result.same <=> result.other \in Closure({result.panel}, snappedTo, snappedFrom, Registry))

\* C5 witness: getConnectedGroup was asked for the middle member of a chain
\* of three and returned the three panels
C5_Witness ==
  /\ WellFormed(snappedTo, snappedFrom, Registry)
  /\ result.op = "getConnectedGroup"
  /\ snappedFrom[result.panel] # None
  /\ snappedTo[result.panel] # None
  /\ result.group = <<snappedFrom[result.panel], result.panel, snappedTo[result.panel]>>

\* C6: detachFromGroup(p) on symmetric links leaves p without links, clears
\* the left neighbour's snappedTo and the right neighbour's snappedFrom, and
\* changes no other link value
C6_DetachFrame ==
  [][ (result'.op = "detachFromGroup"
       /\ LinkSymmetry(snappedTo, snappedFrom, Registry)) =>
        LET p == result'.panel
            l == snappedFrom[p]
            r == snappedTo[p]
        IN /\ snappedTo'[p] = None
           /\ snappedFrom'[p] = None
           /\ l \in Registry => snappedTo'[l] = None
           /\ r \in Registry => snappedFrom'[r] = None
           /\ \A q \in Ids :
                /\ (q # p /\ q # l) => snappedTo'[q] = snappedTo[q]
                /\ (q # p /\ q # r) => snappedFrom'[q] = snappedFrom[q]
    ]_vars

\* C6 witness: detachFromGroup was called on the middle panel of a chain of
\* three with symmetric links
C6_Witness ==
  /\ result.op = "detachFromGroup"
  /\ result.symmetric
  /\ result.left \in Registry
  /\ result.right \in Registry
  /\ Cardinality({result.left, result.panel, result.right}) = 3
  /\ snappedTo[result.left] = None
  /\ snappedFrom[result.right] = None

\* C7: a second detach of the same panel changes nothing, and detach on a
\* panel without links changes no link
C7_DetachIdempotent ==
  [][ result'.op = "detachFromGroup" =>
        LET p == result'.panel
            again == detachFromGroup(p, snappedTo', snappedFrom', Registry')
        IN /\ again.to = snappedTo'
           /\ again.from = snappedFrom'
           /\ (snappedTo[p] = None /\ snappedFrom[p] = None) =>
                (snappedTo' = snappedTo /\ snappedFrom' = snappedFrom)
    ]_vars

\* C7 witness: detachFromGroup was called on a panel that had links on both
\* sides, in a registry whose links were not symmetric
C7_Witness ==
  /\ result.op = "detachFromGroup"
  /\ ~result.symmetric
  /\ result.left # None
  /\ result.right # None
  /\ snappedTo[result.panel] = None
  /\ snappedFrom[result.panel] = None

\* C8: startDrag in single mode on the middle member B of a chain A-B-C
\* leaves B without links, A.snappedTo and C.snappedFrom none, A.snappedFrom and
\* C.snappedTo as they were, the moving set <<B>>, and the snapshot of initial
\* positions covering A, B and C
C8_SingleDragMiddle ==
  [][ \A b \in Registry :
        (/\ IsMiddle(b, snappedTo, snappedFrom, Registry)
         /\ last'.op = "startDrag"
         /\ last'.mode = "single"
         /\ drag'.grabbed = b) =>
          LET a == snappedFrom[b]
              c == snappedTo[b]
          IN /\ snappedTo'[b] = None
             /\ snappedFrom'[b] = None
             /\ snappedTo'[a] = None
             /\ snappedFrom'[c] = None
             /\ snappedFrom'[a] = snappedFrom[a]
             /\ snappedTo'[c] = snappedTo[c]
             /\ drag'.active
             /\ drag'.movingPanels = <<b>>
             /\ {a, b, c} \subseteq DOMAIN drag'.initialGroupPositions
             /\ \A q \in {a, b, c} : drag'.initialGroupPositions[q] = pos[q]
    ]_vars

\* C8 witness: a single-mode drag has just started on the middle member of a
\* chain of three
C8_Witness ==
  /\ last.op = "startDrag"
  /\ last.mode = "single"
  /\ last.seen = "middle"
  /\ drag.active
  /\ Len(drag.movingPanels) = 1
  /\ Cardinality(DOMAIN drag.initialGroupPositions) = 3

\* the drag:end event of the last operation
DragEnd == events[Len(events)]

\* C9: when findSnapTarget finds a panel target the anchor search is not
\* used, at mouse-move and at mouse-up; at mouse-up with both a panel target
\* and an anchor target, the panel snap is committed: the link to the target is
\* set, no snap:anchor is emitted, drag:end has snappedToPanel and not
\* snappedToAnchor
C9_AnchorPriority ==
  [][ /\ (last'.op = "mouseMove" /\ last'.ok /\ events'[1].snapTarget.found) =>
           ~events'[1].anchorTarget.found
      /\ (last'.op = "mouseUp" /\ last'.ok /\ drag.active) =>
           LET moving == drag.movingPanels
               tgt == findSnapTarget(moving, order, snappedTo, snappedFrom, pos)
               end == events'[Len(events')]
           IN tgt.found =>
                /\ end.type = "drag:end"
                /\ end.snappedToPanel
                /\ ~end.snappedToAnchor
                /\ \A i \in 1..Len(events') : events'[i].type # "snap:anchor"
                /\ \E i \in 1..Len(events') : events'[i].type = "snap:panel"
                /\ IF tgt.side = "left"
                   THEN /\ snappedFrom'[tgt.targetId] = moving[Len(moving)]
                        /\ moving[Len(moving)] \in Registry =>
                             snappedTo'[moving[Len(moving)]] = tgt.targetId
                   ELSE /\ snappedTo'[tgt.targetId] = moving[1]
                        /\ moving[1] \in Registry =>
                             snappedFrom'[moving[1]] = tgt.targetId
                /\ moving[1] \in Registry =>
                     pos'[moving[1]] = [x |-> tgt.x, y |-> tgt.y]
    ]_vars

\* C9 witness: a drag has ended where both a panel target and an anchor
\* target existed, and the panel snap was committed
C9_Witness ==
  /\ last.op = "mouseUp"
  /\ last.seen = "both"
  /\ Len(events) = 2
  /\ events[1].type = "snap:panel"
  /\ DragEnd.snappedToPanel

\* C9 witness at mouse-move: a move during which both targets existed
C9_MoveWitness ==
  /\ last.op = "mouseMove"
  /\ last.seen = "both"
  /\ events[1].snapTarget.found

\* the moving group's left x and top y, and the candidate p2, in SpecSnap
SnapMovingX == pos[drag.movingPanels[1]].x
SnapMovingY == pos[drag.movingPanels[1]].y
SnapDockLeft ==
  pos["p2"].x - Len(drag.movingPanels) * PanelWidth
    - (Len(drag.movingPanels) - 1) * PanelGap - PanelGap
SnapDockRight == pos["p2"].x + PanelWidth + PanelGap

\* C10: findSnapTarget accepts a side only when the moving group's left x is
\* strictly less than snapThreshold from that side's docking x and its top is
\* strictly less than 2 * snapThreshold from the candidate's top; a difference
\* of snapThreshold - 1 is accepted when the side is free
C10_ThresholdBoundary ==
  result.op = "findSnapTarget" =>
    LET t == result.target
        near(dock) == Abs(SnapMovingX - dock) < SnapThreshold
        level == Abs(SnapMovingY - pos["p2"].y) < 2 * SnapThreshold
        leftOk == level /\ near(SnapDockLeft) /\ snappedFrom["p2"] = None
        rightOk == level /\ near(SnapDockRight) /\ snappedTo["p2"] = None
    IN /\ t.found <=> (leftOk \/ rightOk)
       /\ t.found =>
            /\ t.targetId = "p2"
            /\ Abs(SnapMovingX - t.x) < SnapThreshold
            /\ Abs(SnapMovingX - t.x) <= 49
            /\ Abs(SnapMovingY - t.y) < 2 * SnapThreshold
            /\ t.side = "left" => (leftOk /\ t.x = SnapDockLeft)
            /\ t.side = "right" => (rightOk /\ t.x = SnapDockRight)
       /\ (Abs(SnapMovingX - SnapDockLeft) = 49 /\ level /\ snappedFrom["p2"] = None) =>
            (t.found /\ t.side = "left")
       /\ (Abs(SnapMovingX - SnapDockLeft) = 50 \/ Abs(SnapMovingX - SnapDockRight) = 50) =>
            ~t.found

\* C10 witness: a moving group exactly snapThreshold - 1 from the docking x and
\* 2 * snapThreshold - 1 from the candidate's top was given a target
C10_Witness ==
  /\ result.op = "findSnapTarget"
  /\ result.target.found
  /\ Abs(SnapMovingX - result.target.x) = SnapThreshold - 1
  /\ Abs(SnapMovingY - result.target.y) = 2 * SnapThreshold - 1

(* ---------- findSnapTarget over a registry of three panels ------------ *)

\* the panels stand at these x; p2 is level with the others or out of reach
TargetXs == {0, 300, 600}
TargetYs == {0, 150}

\* moving groups handed to findSnapTarget: none, one panel, two panels in
\* either registry order
TargetMovingGroups == {<<>>, <<"p1">>, <<"p2">>, <<"p1", "p2">>, <<"p3", "p1">>}

TargetInit ==
  /\ order = <<"p1", "p2", "p3">>
  /\ \E moving \in TargetMovingGroups :
       drag = IF moving = <<>> THEN NoDrag
              ELSE [NoDrag EXCEPT !.active = TRUE, !.grabbed = moving[1],
                                  !.movingPanels = moving, !.mode = "group"]
  /\ \E x1, x2, x3 \in TargetXs, y2 \in TargetYs :
       pos = [p \in Ids |-> IF p = "p1" THEN [x |-> x1, y |-> 0]
                            ELSE IF p = "p2" THEN [x |-> x2, y |-> y2]
                            ELSE IF p = "p3" THEN [x |-> x3, y |-> 0]
                            ELSE [x |-> 0, y |-> 0]]
  /\ snappedTo \in [Ids -> {None, SnapNeighbour}]
  /\ snappedFrom \in [Ids -> {None, SnapNeighbour}]
  /\ \A p \in Ids \ Range(order) : snappedTo[p] = None /\ snappedFrom[p] = None
  /\ collapsed = [p \in Ids |-> TRUE]
  /\ events = <<>>
  /\ last = Op("init", TRUE, None)
  /\ hung = FALSE
  /\ steps = 0
  /\ result = NoResult
  /\ anchors = DefaultAnchors
  /\ RestInit

\* snapPanelsToTarget(movingPanels, t.targetId, t.side, t.x, t.y, panels, config)
ApplySnapPanelsToTarget(t) ==
  /\ LET s == snapPanelsToTarget(drag.movingPanels, t, order, snappedTo, snappedFrom, pos)
     IN /\ snappedTo' = s.to
        /\ snappedFrom' = s.from
        /\ pos' = s.pos
  /\ result' = [op |-> "snapPanelsToTarget", target |-> t]
  /\ UNCHANGED <<order, collapsed, drag, events, last, hung, steps>>
  /\ UNCHANGED <<viewVars, hideVars, configVars, overlayVars>>

\* snapPanelsToTarget with the target that findSnapTarget returns
CallSnapPanelsToTarget ==
  /\ drag.movingPanels # <<>>
  /\ LET t == findSnapTarget(drag.movingPanels, order, snappedTo, snappedFrom, pos)
     IN t.found /\ ApplySnapPanelsToTarget(t)

\* snapPanelsToTarget with a targetId that is not in the registry
CallSnapPanelsToMissing(side) ==
  /\ drag.movingPanels # <<>>
  /\ ApplySnapPanelsToTarget([found |-> TRUE, targetId |-> SnapNeighbour, side |-> side,
                              x |-> 0, y |-> 0])

TargetNext ==
  \/ CallFindSnapTarget
  \/ CallSnapPanelsToTarget
  \/ \E side \in {"left", "right"} : CallSnapPanelsToMissing(side)

SpecTarget == TargetInit /\ [][TargetNext]_vars

\* C11: findSnapTarget returns none for an empty moving set, never a member of
\* the moving set, never side 'left' for a target whose snappedFrom is set and
\* never side 'right' for a target whose snappedTo is set
C11_TargetValid ==
  result.op = "findSnapTarget" =>
    LET t == result.target
        moving == drag.movingPanels
    IN /\ moving = <<>> => ~t.found
       /\ t.found =>
            /\ t.targetId \in Registry
            /\ t.targetId \notin Range(moving)
            /\ t.side \in {"left", "right"}
            /\ t.side = "left" => snappedFrom[t.targetId] = None
            /\ t.side = "right" => snappedTo[t.targetId] = None

\* C11 witness: a group of two got the right side of a target whose left side
\* is taken, while a member of the group stands where a target would qualify
C11_Witness ==
  /\ result.op = "findSnapTarget"
  /\ result.target.found
  /\ result.target.side = "right"
  /\ snappedFrom[result.target.targetId] # None
  /\ Len(drag.movingPanels) = 2
  /\ findSnapTargetNoSkip(drag.movingPanels, order, snappedTo, snappedFrom,
                          pos).targetId \in Range(drag.movingPanels)

\* C12: snapPanelsToTarget with a target and side returned by findSnapTarget
\* sets rightmost.snappedTo = target and target.snappedFrom = rightmost for
\* side 'left', target.snappedTo = leftmost and leftmost.snappedFrom = target
\* for side 'right', and no other link value; with a targetId that is not in
\* the registry it changes nothing
C12_OneLink ==
  [][ result'.op = "snapPanelsToTarget" =>
        LET t == result'.target
            moving == drag.movingPanels
            leftmost == moving[1]
            rightmost == moving[Len(moving)]
        IN IF t.targetId \notin Registry
           THEN snappedTo' = snappedTo /\ snappedFrom' = snappedFrom /\ pos' = pos
           ELSE IF t.side = "left"
           THEN /\ snappedTo'[rightmost] = t.targetId
                /\ snappedFrom'[t.targetId] = rightmost
                /\ \A q \in Ids : /\ q # rightmost => snappedTo'[q] = snappedTo[q]
                                  /\ q # t.targetId => snappedFrom'[q] = snappedFrom[q]
           ELSE /\ snappedTo'[t.targetId] = leftmost
                /\ snappedFrom'[leftmost] = t.targetId
                /\ \A q \in Ids : /\ q # t.targetId => snappedTo'[q] = snappedTo[q]
                                  /\ q # leftmost => snappedFrom'[q] = snappedFrom[q]
    ]_vars

\* C12 witness: a group of two was snapped to the left side of its target
C12_Witness ==
  /\ result.op = "snapPanelsToTarget"
  /\ result.target.targetId \in Registry
  /\ result.target.side = "left"
  /\ Len(drag.movingPanels) = 2
  /\ snappedTo[drag.movingPanels[2]] = result.target.targetId
  /\ snappedFrom[result.target.targetId] = drag.movingPanels[2]
  /\ snappedTo[drag.movingPanels[1]] = SnapNeighbour

\* C13: startDrag in group mode, every mouse-move, and a mouse-up without a
\* panel snap target (anchor dock or free drop) leave every snappedTo and
\* snappedFrom value of the registry unchanged
C13_DragLinkFrame ==
  [][ (\/ last'.op = "startDrag" /\ last'.mode = "group"
       \/ last'.op = "mouseMove"
       \/ last'.op = "mouseUp" /\ ~last'.ok
       \/ last'.op = "mouseUp" /\ last'.ok
            /\ ~events'[Len(events')].snappedToPanel) =>
        \A p \in Registry : /\ snappedTo'[p] = snappedTo[p]
                            /\ snappedFrom'[p] = snappedFrom[p]
    ]_vars

\* C13 witness: a linked group was docked at an anchor and is still linked
C13_Witness ==
  /\ last.op = "mouseUp"
  /\ last.ok
  /\ DragEnd.snappedToAnchor
  /\ events[1].type = "snap:anchor"
  /\ Len(events[1].movingPanels) = 2
  /\ snappedTo[events[1].movingPanels[1]] = events[1].movingPanels[2]

RenderedHeight(p) == IF collapsed[p] THEN CollapsedHeight ELSE ExpandedHeight

\* C15: after every mouse-move of a drag the grabbed panel is fully inside the
\* window: 0 <= x <= windowWidth - width and 0 <= y <= windowHeight - height
C15_GrabbedInWindow ==
  (last.op = "mouseMove" /\ last.ok /\ drag.grabbed \in Registry) =>
    LET g == drag.grabbed
    IN /\ 0 <= pos[g].x /\ pos[g].x <= WindowWidth - PanelWidth
       /\ 0 <= pos[g].y /\ pos[g].y <= WindowHeight - RenderedHeight(g)
       /\ events[1].position = pos[g]

\* C15 witness: the cursor was beyond the right and bottom edges and the
\* grabbed panel stands in the bottom-right corner of the window
C15_Witness ==
  /\ last.op = "mouseMove"
  /\ last.ok
  /\ drag.grabbed \in Registry
  /\ pos[drag.grabbed] = [x |-> WindowWidth - PanelWidth,
                          y |-> WindowHeight - RenderedHeight(drag.grabbed)]

\* position p gets in a group move: its snapshot position plus the grabbed
\* panel's displacement, clamped to the window
GroupMoveTarget(p) ==
  LET snap == drag.initialGroupPositions
      g == drag.grabbed
      dx == events[1].position.x - snap[g].x
      dy == events[1].position.y - snap[g].y
  IN [x |-> Max(0, Min(snap[p].x + dx, WindowWidth - PanelWidth)),
      y |-> Max(0, Min(snap[p].y + dy, WindowHeight - RenderedHeight(p))),
      free |-> /\ 0 <= snap[p].x + dx /\ snap[p].x + dx <= WindowWidth - PanelWidth
               /\ 0 <= snap[p].y + dy
               /\ snap[p].y + dy <= WindowHeight - RenderedHeight(p)]

\* C16: in group mode with more than one moving panel, after a mouse-move each
\* other moving panel is at its snapshot position plus the grabbed panel's
\* displacement, clamped on its own; if no panel is clamped the offsets between
\* the moving panels are those of the snapshot
C16_GroupFormation ==
  (/\ last.op = "mouseMove" /\ last.ok
   /\ drag.mode = "group" /\ Len(drag.movingPanels) > 1) =>
    LET snap == drag.initialGroupPositions
        g == drag.grabbed
        others == (Range(drag.movingPanels) \ {g}) \cap Registry
        moving == Range(drag.movingPanels) \cap Registry
    IN /\ \A p \in others : /\ pos[p].x = GroupMoveTarget(p).x
                            /\ pos[p].y = GroupMoveTarget(p).y
       /\ (Range(drag.movingPanels) \subseteq Registry
           /\ \A p \in others : GroupMoveTarget(p).free) =>
            \A p, q \in moving :
              /\ pos[p].x - pos[q].x = snap[p].x - snap[q].x
              /\ pos[p].y - pos[q].y = snap[p].y - snap[q].y

\* C16 witness: a group of two was moved away from its snapshot position
\* without any clamping
C16_Witness ==
  /\ last.op = "mouseMove"
  /\ last.ok
  /\ drag.mode = "group"
  /\ Len(drag.movingPanels) = 2
  /\ Range(drag.movingPanels) \subseteq Registry
  /\ pos[drag.grabbed] # drag.initialGroupPositions[drag.grabbed]
  /\ \A p \in Range(drag.movingPanels) \ {drag.grabbed} :
       /\ GroupMoveTarget(p).free
       /\ pos[p] # drag.initialGroupPositions[p]

(* ------ updateSnappedPositions over a registry of four panels --------- *)

\* four panels, enough for two chains of two; a walk over them that has not
\* ended after WalkFuel moves has come back to a panel
ReflowIds == {"p1", "p2", "p3", "p4"}
ReflowXs == {0, 300}
ReflowYs == {0, 16}

\* the snappedFrom values that make the links symmetric
InverseLinks(T, ids) ==
  [p \in ids |-> IF \E q \in ids : T[q] = p THEN CHOOSE q \in ids : T[q] = p ELSE None]

\* symmetric acyclic links over the four panels, any horizontal placement
ReflowInit ==
  /\ order = <<"p1", "p2", "p3", "p4">>
  /\ snappedTo \in [ReflowIds -> ReflowIds \cup {None}]
  /\ \A p, q \in ReflowIds : (p # q /\ snappedTo[p] # None) => snappedTo[p] # snappedTo[q]
  /\ Acyclic(snappedTo, ReflowIds)
  /\ snappedFrom = InverseLinks(snappedTo, ReflowIds)
  /\ \E x \in [ReflowIds -> ReflowXs], y \in [{"p1", "p2"} -> ReflowYs] :
       pos = [p \in ReflowIds |-> [x |-> x[p], y |-> IF p \in DOMAIN y THEN y[p] ELSE 0]]
  /\ collapsed = [p \in ReflowIds |-> TRUE]
  /\ drag = NoDrag
  /\ events = <<>>
  /\ last = Op("init", TRUE, None)
  /\ hung = FALSE
  /\ steps = 0
  /\ result = NoResult
  /\ anchors = DefaultAnchors
  /\ RestInit

\* p's chain has more than one member and every linked pair of it is adjacent
ChainAdjacent(p) ==
  LET g == getConnectedGroup(p, snappedTo, snappedFrom, Registry).group
  IN /\ Len(g) > 1
     /\ \A i \in 1..(Len(g) - 1) : pos[g[i]].x = pos[g[i + 1]].x - PanelWidth - PanelGap

\* updateSnappedPositions(panels, config)
CallUpdateSnappedPositions ==
  /\ ~hung
  /\ LET u == updateSnappedPositions(order, snappedTo, snappedFrom, pos)
     IN /\ pos' = IF u.done THEN u.pos ELSE pos
        /\ hung' = ~u.done
  /\ result' = [op |-> "updateSnappedPositions", before |-> pos]
  /\ UNCHANGED <<order, snappedTo, snappedFrom, collapsed, drag, events, last, steps>>
  /\ UNCHANGED <<viewVars, hideVars, configVars, overlayVars>>

\* a click on the collapse button of panel id; adjacent tells whether the
\* panel's chain was adjacent before the click
CallCollapse(id) ==
  /\ ~hung
  /\ CollapseHandler(id)
  /\ result' = [op |-> "collapse", panel |-> id, before |-> pos,
                adjacent |-> ChainAdjacent(id)]
  /\ UNCHANGED steps

ReflowNext ==
  \/ CallUpdateSnappedPositions
  \/ \E id \in ReflowIds : CallCollapse(id)

SpecReflow == ReflowInit /\ [][ReflowNext]_vars

\* C17: after updateSnappedPositions on symmetric acyclic links, every linked
\* pair (L, R) of every chain has L.x = R.x - L.width - panelGap and L.y = R.y
C17_AllChainsAdjacent ==
  (result.op = "updateSnappedPositions" /\ ~hung) =>
    \A l, r \in Registry :
      snappedTo[l] = r =>
        /\ pos[l].x = pos[r].x - PanelWidth - PanelGap
        /\ pos[l].y = pos[r].y

\* C18: a click on the collapse button leaves every link unchanged and leaves
\* the x of every member of a chain that is adjacent unchanged; a panel
\* without a right neighbour is never moved by updateSnappedPositions
C18_CollapseKeepsX ==
  [][ /\ result'.op = "collapse" =>
           /\ snappedTo' = snappedTo
           /\ snappedFrom' = snappedFrom
           /\ collapsed'[result'.panel] = ~collapsed[result'.panel]
           /\ \A p \in Registry :
                ChainAdjacent(p) =>
                  \A q \in Range(getConnectedGroup(p, snappedTo, snappedFrom,
                                                   Registry).group) :
                    pos'[q].x = pos[q].x
      /\ result'.op \in {"collapse", "updateSnappedPositions"} =>
           \A p \in Registry : snappedTo[p] = None => pos'[p] = pos[p]
    ]_vars

\* C18 witness: a member of an adjacent chain was expanded and stands where
\* it stood
C18_Witness ==
  /\ result.op = "collapse"
  /\ result.adjacent
  /\ ~collapsed[result.panel]
  /\ snappedTo[result.panel] # None
  /\ pos[result.panel].x = result.before[result.panel].x

\* C19: every collapse click, every TabManager.snap that returns true and
\* every TabManager.detach that returns true runs updateSnappedPositions
\* before it returns: the positions after the operation are those that
\* updateSnappedPositions computes on the links the operation leaves
C19_ReflowAfterChange ==
  [][ (last'.op \in {"collapse", "snap", "detach"} /\ last'.ok) =>
        LET u == updateSnappedPositions(order', snappedTo', snappedFrom', pos)
        IN u.done /\ pos' = u.pos
    ]_vars

(* ------- findNearestAnchor over moving groups of one to four ---------- *)

AnchorIds == {"p1", "p2", "p3", "p4"}
\* left x and top y of the moving group; its panels stand side by side
AnchorGroupXs == {0, 100, 350, 400, 700}
AnchorGroupYs == {0, 560}
\* the panel of the group that is expanded, if any
AnchorExpanded == {None, "p1", "p2"}

\* the anchors of the manager: the default set, or one of them alone (the
\* others removed with removeAnchor)
AnchorLists == {DefaultAnchors} \cup {<<DefaultAnchors[i]>> : i \in 1..Len(DefaultAnchors)}

AnchorInit ==
  /\ order = <<"p1", "p2", "p3", "p4">>
  /\ \E n \in 1..4 :
       drag = [NoDrag EXCEPT !.active = TRUE, !.grabbed = "p1",
                             !.movingPanels = SubSeq(order, 1, n), !.mode = "group"]
  /\ \E e \in AnchorExpanded : collapsed = [p \in AnchorIds |-> p # e]
  \* the panels stand side by side from (gx, gy); when the group was dragged
  \* against the window's edge, handleMouseMove has clamped each panel
  /\ \E gx \in AnchorGroupXs, gy \in AnchorGroupYs, atEdge \in BOOLEAN :
       pos = [p \in AnchorIds |->
                LET x == gx + (CHOOSE i \in 1..4 : order[i] = p) * (PanelWidth + PanelGap)
                            - (PanelWidth + PanelGap)
                    h == IF collapsed[p] THEN CollapsedHeight ELSE ExpandedHeight
                IN IF atEdge
                   THEN [x |-> Clamp(x, WindowWidth - PanelWidth),
                         y |-> Clamp(gy, WindowHeight - h)]
                   ELSE [x |-> x, y |-> gy]]
  /\ snappedTo = [p \in AnchorIds |-> None]
  /\ snappedFrom = [p \in AnchorIds |-> None]
  /\ events = <<>>
  /\ last = Op("init", TRUE, None)
  /\ hung = FALSE
  /\ steps = 0
  /\ result = NoResult
  /\ anchors \in AnchorLists
  /\ RestInit

\* findNearestAnchor(movingPanels)
CallFindNearestAnchor ==
  /\ result' = [op |-> "findNearestAnchor", anchors |-> anchors,
                res |-> findNearestAnchor(drag.movingPanels, anchors, pos, collapsed,
                                          Registry)]
  /\ UNCHANGED <<order, snappedTo, snappedFrom, pos, collapsed, drag, events, last,
                 hung, steps>>
  /\ UNCHANGED <<viewVars, hideVars, configVars, overlayVars>>

AnchorNext == CallFindNearestAnchor

SpecAnchor == AnchorInit /\ [][AnchorNext]_vars

\* the layout with the panel at index k (from 0) of n panels at x fits the window
DockFits(x, k, n) ==
  /\ x - k * (PanelWidth + PanelGap) >= 0
  /\ x + (n - 1 - k) * (PanelWidth + PanelGap) + PanelWidth <= WindowWidth

\* the anchor is within anchorThreshold of the moving group's bounding box
NearGroup(a) ==
  LET moving == drag.movingPanels
      first == moving[1]
      lastp == moving[Len(moving)]
  IN /\ a.x >= pos[first].x - AnchorThreshold
     /\ a.x <= pos[lastp].x + PanelWidth + AnchorThreshold
     /\ a.y >= pos[first].y - AnchorThreshold
     /\ a.y <= pos[first].y + RenderedHeight(first) + AnchorThreshold

\* C20: for one anchor near the group, findNearestAnchor docks the closest
\* panel if that layout fits the window, otherwise the first index in order
\* whose layout fits, and rejects the anchor only if no index fits; every
\* layout it returns is inside the window horizontally
C20_AnchorFallback ==
  result.op = "findNearestAnchor" =>
    LET r == result.res
        moving == drag.movingPanels
        n == Len(moving)
    IN /\ r.found =>
            /\ Len(r.positions) = n
            /\ r.positions[1].x >= 0
            /\ r.positions[n].x + PanelWidth <= WindowWidth
            /\ r.dockPanelIndex \in 0..(n - 1)
       /\ Len(result.anchors) = 1 =>
            LET a == result.anchors[1]
                closest == ClosestPanelIdx(moving, a, pos, Registry) - 1
                fitting == {k \in 0..(n - 1) : DockFits(a.x, k, n)}
            IN IF ~NearGroup(a) \/ fitting = {} THEN ~r.found
               ELSE /\ r.found
                    /\ r.anchor = a.id
                    /\ r.positions[r.dockPanelIndex + 1].x = a.x
                    /\ r.dockPanelIndex =
                         IF closest \in fitting THEN closest
                         ELSE CHOOSE k \in fitting : \A j \in fitting : k <= j

\* C20 witness: a group of three whose first panel is closest to the anchor;
\* docking index 0 does not fit, index 1 does and is the one returned
C20_Witness ==
  /\ result.op = "findNearestAnchor"
  /\ Len(result.anchors) = 1
  /\ Len(drag.movingPanels) = 3
  /\ ClosestPanelIdx(drag.movingPanels, result.anchors[1], pos, Registry) = 1
  /\ ~DockFits(result.anchors[1].x, 0, 3)
  /\ result.res.found
  /\ result.res.dockPanelIndex = 1
  /\ result.res.positions[1].x >= 0
  /\ result.res.positions[3].x + PanelWidth <= WindowWidth

\* the anchor of the list given to the last call that has this id
AnchorOf(id) ==
  result.anchors[CHOOSE i \in 1..Len(result.anchors) : result.anchors[i].id = id]

\* C21: every result of findNearestAnchor has one position per moving panel,
\* the first at x >= 0, the last ending at or before the window's right edge,
\* the docking panel at the anchor's x, each panel one width plus gap right
\* of the one before it, and all at the same y
C21_LayoutShape ==
  (result.op = "findNearestAnchor" /\ result.res.found) =>
    LET r == result.res
        n == Len(drag.movingPanels)
    IN /\ Len(r.positions) = n
       /\ r.positions[1].x >= 0
       /\ r.positions[n].x + PanelWidth <= WindowWidth
       /\ r.dockPanelIndex \in 0..(n - 1)
       /\ r.positions[r.dockPanelIndex + 1].x = AnchorOf(r.anchor).x
       /\ \A i \in 1..(n - 1) :
            r.positions[i + 1].x = r.positions[i].x + PanelWidth + PanelGap
       /\ \A i \in 1..n : r.positions[i].y = r.positions[1].y

\* C21 witness: a group of three is docked by its last panel, among all the
\* default anchors
C21_Witness ==
  /\ result.op = "findNearestAnchor"
  /\ Len(result.anchors) > 1
  /\ Len(drag.movingPanels) = 3
  /\ result.res.found
  /\ result.res.dockPanelIndex = 2
  /\ result.res.positions[3].x = AnchorOf(result.res.anchor).x

\* C22: the y of the layout returned by findNearestAnchor is, for a bottom
\* anchor, the anchor's y minus the height of the panel at the returned
\* dockPanelIndex, and for every other anchor the anchor's y
C22_BottomAnchorY ==
  (result.op = "findNearestAnchor" /\ result.res.found) =>
    LET r == result.res
        a == AnchorOf(r.anchor)
        dock == drag.movingPanels[r.dockPanelIndex + 1]
    IN \A i \in 1..Len(r.positions) :
         r.positions[i].y = IF IsBottom(a.id) THEN a.y - RenderedHeight(dock) ELSE a.y

\* the square of the distance from anchor a to the top-left corner of the
\* panel that the candidate c docks
DockDist2(c, a) ==
  Dist2(pos, Registry, drag.movingPanels[c.dockPanelIndex + 1], a)

\* C23: findNearestAnchor returns a result exactly when some anchor yields an
\* in-bounds layout, and then no other such anchor is nearer to its docking
\* panel (the panel at its dockPanelIndex) than the returned anchor is to the
\* panel at the returned dockPanelIndex
C23_NearestDockingPanel ==
  result.op = "findNearestAnchor" =>
    LET r == result.res
        cand(i) == AnchorCandidate(drag.movingPanels, result.anchors[i], pos, collapsed,
                                   Registry).res
        valid == {i \in 1..Len(result.anchors) : cand(i).found}
    IN /\ r.found <=> valid # {}
       /\ r.found =>
            \A i \in valid :
              DockDist2(r, AnchorOf(r.anchor)) <= DockDist2(cand(i), result.anchors[i])

(* ------------------------- unknown identifiers ------------------------ *)

\* the panel, link, anchor and timer state is the same after the step
ProgramStateUnchanged ==
  UNCHANGED <<order, snappedTo, snappedFrom, pos, collapsed, drag, zIndex, userSelect,
              isHidden, resolvedAutoHideDelay, hideTimers, listenersAttached, anchors,
              draggable, overlayVars>>

\* the call returned false, emitted no event and changed nothing
RefusedQuietly == ~last'.ok /\ events' = <<>> /\ ProgramStateUnchanged

\* C24: removePanel, snap, detach, show and hide called with an id that is not
\* registered, and removeAnchor called with an id no anchor has, return false,
\* getSnapChain of an unregistered id returns the empty list, and none of them
\* changes panel, link, anchor or timer state or emits an event
C24_UnknownIdRefused ==
  [][ /\ \A id \in Ids \ Registry :
           /\ (RemovePanel(id) \/ Detach(id) \/ Show(id) \/ Hide(id)) => RefusedQuietly
           /\ \A other \in Ids : (Snap(id, other) \/ Snap(other, id)) => RefusedQuietly
           /\ GetSnapChain(id) => (result'.group = <<>> /\ RefusedQuietly)
      /\ \A a \in AnchorIdInputs :
           (RemoveAnchor(a) /\ \A i \in 1..Len(anchors) : anchors[i].id # a) => RefusedQuietly
    ]_vars

\* removeAnchor of an unknown id was refused while a panel with a pending hide
\* timer is linked to a neighbour
C24_Witness ==
  /\ last.op = "removeAnchor" /\ ~last.ok
  /\ \E id \in Registry : hideTimers[id] = "pending" /\ snappedTo[id] # None
  /\ Len(anchors) = Len(DefaultAnchors)

(* ------------------------------ removePanel --------------------------- *)

\* what removePanel(id) must leave behind: id is gone, no remaining panel
\* names it, the remaining links are symmetric, and panel:removed is the one
\* event
RemovedCleanly(id) ==
  /\ last'.ok
  /\ id \notin Registry'
  /\ \A q \in Registry' : snappedTo'[q] # id /\ snappedFrom'[q] # id
  /\ LinkSymmetry(snappedTo', snappedFrom', Registry')
  /\ events' = << [type |-> "panel:removed", panelId |-> id] >>

\* C25: after removePanel(id) of a registered panel with no drag active, id is
\* not in the registry, no remaining panel has snappedTo or snappedFrom equal
\* to id, link symmetry holds among the remaining panels, and exactly one
\* panel:removed event carrying id was emitted
C25_RemovePanelClean ==
  [][\A id \in Registry : (RemovePanel(id) /\ ~drag.active) => RemovedCleanly(id)]_vars

\* the same, for removals that start from symmetric links without dangling ids
C25_RemovePanelCleanFromWellFormed ==
  [][\A id \in Registry :
       (/\ RemovePanel(id) /\ ~drag.active
        /\ LinkSymmetry(snappedTo, snappedFrom, Registry)
        /\ NoDangling(snappedTo, snappedFrom, Registry)) => RemovedCleanly(id)]_vars

(* ---------------------- removal during a drag ------------------------- *)

\* a member of the moving set was removed from the registry since startDrag
MovingMemberRemoved == drag.active /\ \E p \in Range(drag.movingPanels) : p \notin Registry

\* C26: when a member of the moving set was removed between startDrag and the
\* mouse-up, the mouse-up still ends the drag (phase Idle), and after it no
\* registered panel has a link that names an id absent from the registry
C26_RemovalDuringDrag ==
  [][(MouseUp /\ MovingMemberRemoved) =>
       (~drag'.active /\ NoDangling(snappedTo', snappedFrom', Registry'))]_vars

\* the part of C26 about the phase alone
C26_DragStillEnds == [][(MouseUp /\ MovingMemberRemoved) => ~drag'.active]_vars

\* C26 for mouse-ups that start from links without dangling ids
C26_FromNoDangling ==
  [][(MouseUp /\ MovingMemberRemoved /\ NoDangling(snappedTo, snappedFrom, Registry)) =>
       NoDangling(snappedTo', snappedFrom', Registry')]_vars

(* ---------------------------- panel:detached -------------------------- *)

\* the chain of p before the step
GroupBefore(p) == getConnectedGroup(p, snappedTo, snappedFrom, Registry).group

\* the step emitted panel:detached for p with the group p was in before it
DetachedEmitted(p) ==
  \E i \in 1..Len(events') :
    /\ events'[i].type = "panel:detached"
    /\ events'[i].panel = p
    /\ events'[i].previousGroup = GroupBefore(p)

\* C27: whenever a registered panel with at least one chain neighbour is
\* detached from its group, by TabManager.detach or by the start of a
\* single-mode drag on it, a panel:detached event with the panel and its
\* previous group is emitted
C27_DetachedEvent ==
  [][\A p \in Registry :
       Len(GroupBefore(p)) > 1 =>
         /\ Detach(p) => DetachedEmitted(p)
         /\ (\E off \in GrabOffsets : StartDrag(p, "single", off)) => DetachedEmitted(p)]_vars

\* the part of C27 about TabManager.detach alone
C27_DetachCallEmits ==
  [][\A p \in Registry :
       (Len(GroupBefore(p)) > 1 /\ Detach(p)) => DetachedEmitted(p)]_vars

(* ------------------------------ draggable ----------------------------- *)

\* C28: a mouse-down on the drag handle or the detach grip of a panel added
\* with draggable: false never makes it the grabbed panel of a drag session
\* and never emits drag:start for it
C28_NotDraggable ==
  [][\A p \in Registry :
       ~draggable[p] =>
         \A mode \in {"single", "group"}, off \in GrabOffsets :
           StartDrag(p, mode, off) =>
             /\ ~(drag'.active /\ drag'.grabbed = p)
             /\ \A i \in 1..Len(events') :
                  ~(events'[i].type = "drag:start" /\ events'[i].panel = p)]_vars

(* ---------------------- z-index and text selection -------------------- *)

\* Idle: every registered panel at its default z-index, text selection on;
\* Dragging: the moving panels at their drag z-index, text selection off
DragViewConsistent ==
  IF ~drag.active
  THEN /\ \A p \in Registry : zIndex[p] = DefaultZIndex
       /\ userSelect = ""
  ELSE /\ \A p \in Range(drag.movingPanels) : zIndex[p] = DragZIndex
       /\ userSelect = "none"

DragViewExact ==
  /\ DragViewConsistent
  /\ drag.active =>
       \A p \in Registry \ Range(drag.movingPanels) : zIndex[p] = DefaultZIndex

EmittedCount(t) == Cardinality({i \in 1..Len(events') : events'[i].type = t})

\* C30: each mouse-up that ends a drag emits exactly one drag:end, as the last
\* event of the step; before it exactly one snap:panel and no snap:anchor if a
\* panel snap was committed, exactly one snap:anchor and no snap:panel if an
\* anchor dock was committed, and neither for a free drop; snappedToPanel and
\* snappedToAnchor of drag:end are never both true and say which of the three
\* was committed
C30_DragEndEvents ==
  [][(MouseUp /\ drag.active) =>
       LET moving == drag.movingPanels
           tgt == findSnapTarget(moving, order, snappedTo, snappedFrom, pos)
           anc == findNearestAnchor(moving, anchors, pos, collapsed, Registry)
           end == events'[Len(events')]
           snapped == snapPanelsToTarget(moving, tgt, order, snappedTo, snappedFrom, pos)
       IN /\ Len(events') >= 1
          /\ EmittedCount("drag:end") = 1
          /\ end.type = "drag:end"
          /\ ~(end.snappedToPanel /\ end.snappedToAnchor)
          /\ IF tgt.found
             THEN /\ EmittedCount("snap:panel") = 1 /\ EmittedCount("snap:anchor") = 0
                  /\ Len(events') = 2
                  /\ events'[1].targetPanel = tgt.targetId
                  /\ end.snappedToPanel /\ ~end.snappedToAnchor
                  /\ pos' = snapped.pos
                  /\ \A p \in Registry :
                       snappedTo'[p] = snapped.to[p] /\ snappedFrom'[p] = snapped.from[p]
             ELSE IF anc.found
             THEN /\ EmittedCount("snap:anchor") = 1 /\ EmittedCount("snap:panel") = 0
                  /\ Len(events') = 2
                  /\ events'[1].anchor = anc.anchor
                  /\ ~end.snappedToPanel /\ end.snappedToAnchor
                  /\ \A i \in 1..Len(moving) :
                       moving[i] \in Registry =>
                         (/\ pos'[moving[i]].x = anc.positions[i].x
                          /\ pos'[moving[i]].y = anc.positions[i].y)
                  /\ \A p \in Registry :
                       snappedTo'[p] = snappedTo[p] /\ snappedFrom'[p] = snappedFrom[p]
             ELSE /\ Len(events') = 1
                  /\ ~end.snappedToPanel /\ ~end.snappedToAnchor
                  /\ pos' = pos
                  /\ \A p \in Registry :
                       snappedTo'[p] = snappedTo[p] /\ snappedFrom'[p] = snappedFrom[p]]_vars

\* a drag has ended with an anchor dock: snap:anchor, then drag:end with
\* snappedToAnchor alone
C30_Witness ==
  /\ last.op = "mouseUp" /\ last.ok
  /\ Len(events) = 2
  /\ events[1].type = "snap:anchor"
  /\ events[2].type = "drag:end"
  /\ events[2].snappedToAnchor /\ ~events[2].snappedToPanel

(* -------------------------------- unsnap ------------------------------ *)

\* C31: unsnap(left, right) changes nothing when left.snappedTo is not right
\* and right.snappedFrom is not left; when the pair is linked both ways it
\* clears exactly left.snappedTo and right.snappedFrom; it never changes a link
\* of any panel that names a third panel, and symmetric links stay symmetric
C31_UnsnapFrame ==
  [][\A l, r \in Registry :
       CallUnsnap(l, r) =>
         /\ (snappedTo[l] # r /\ snappedFrom[r] # l) =>
              UNCHANGED <<snappedTo, snappedFrom>>
         /\ (snappedTo[l] = r /\ snappedFrom[r] = l) =>
              /\ snappedTo' = [snappedTo EXCEPT ![l] = None]
              /\ snappedFrom' = [snappedFrom EXCEPT ![r] = None]
         /\ \A p \in Ids :
              /\ (p # l \/ snappedTo[p] # r) => snappedTo'[p] = snappedTo[p]
              /\ (p # r \/ snappedFrom[p] # l) => snappedFrom'[p] = snappedFrom[p]
         /\ LinkSymmetry(snappedTo, snappedFrom, Registry) =>
              LinkSymmetry(snappedTo', snappedFrom', Registry')]_vars

\* unsnap has cleared the link of a pair inside a symmetric chain of three:
\* the left panel keeps its link to its own left neighbour
C31_Witness ==
  /\ result.op = "unsnap" /\ result.linked /\ result.symmetric
  /\ result.left # result.right
  /\ snappedTo[result.left] = None /\ snappedFrom[result.right] = None
  /\ snappedFrom[result.left] \in Registry \ {result.left, result.right}

(* --------------------------- createSnapChain -------------------------- *)

\* what getSnapChain(p) returns in the state after the step
SnapChainAfter(p) == getConnectedGroup(p, snappedTo', snappedFrom', Registry').group

\* C32: after createSnapChain(ids) on distinct registered panels without links,
\* getSnapChain of every member returns ids in the order given; a consecutive
\* pair with an unregistered id is skipped: the call completes and sets no
\* link field for that pair
C32_CreateSnapChain ==
  [][\A ids \in ChainInputs :
       CreateSnapChain(ids) =>
         /\ last'.ok /\ ~hung'
         /\ (/\ Range(ids) \subseteq Registry
             /\ \A p \in Registry : snappedTo[p] = None /\ snappedFrom[p] = None) =>
              \A i \in 1..Len(ids) : SnapChainAfter(ids[i]) = ids
         /\ \A i \in 1..(Len(ids) - 1) :
              (ids[i] \notin Registry \/ ids[i + 1] \notin Registry) =>
                /\ snappedTo'[ids[i]] = snappedTo[ids[i]]
                /\ snappedFrom'[ids[i + 1]] = snappedFrom[ids[i + 1]]]_vars

\* createSnapChain has linked all registered panels in an order that is not
\* the order of registration, and getSnapChain of the first registered panel
\* returns that order
C32_Witness ==
  /\ last.op = "createSnapChain"
  /\ Cardinality(Registry) = MaxPanels
  /\ LET g == getConnectedGroup(order[1], snappedTo, snappedFrom, Registry).group
     IN Len(g) = MaxPanels /\ g # order

(* ------------------------------ auto-hide ----------------------------- *)

\* C33: in every reachable state a registered panel that is visible and has an
\* auto-hide delay has a pending hide timer (so that without further activity
\* it becomes hidden), however it became visible
C33_VisibleHasTimer ==
  \A p \in Registry :
    (~isHidden[p] /\ resolvedAutoHideDelay[p] # None) => hideTimers[p] = "pending"

\* the same for the steps that are not TabManager.show: they keep the timers
\* of the visible panels with a delay pending
C33_TimerKeptWithoutApiShow ==
  [][(C33_VisibleHasTimer /\ last'.op # "show") => C33_VisibleHasTimer']_vars

(* ------------------------ layout of a panel snap ---------------------- *)

\* C34: when a drag ends with a panel snap, the moving panels stand in a row
\* left to right, each at the previous panel's x + its width + panelGap, all at
\* the target's top y, and the boundary panel is adjacent to the target: for
\* side 'left' the rightmost moving panel's right edge + panelGap is the
\* target's left edge, for side 'right' the leftmost moving panel's x is the
\* target's right edge + panelGap
C34_SnapLayout ==
  [][(MouseUp /\ drag.active) =>
       LET moving == drag.movingPanels
           n == Len(moving)
           reg == Registry
           tgt == findSnapTarget(moving, order, snappedTo, snappedFrom, pos)
           t == tgt.targetId
       IN (tgt.found /\ Range(moving) \subseteq reg) =>
            /\ \A i \in 1..(n - 1) :
                 pos'[moving[i + 1]].x = pos'[moving[i]].x + PanelWidth + PanelGap
            /\ \A i \in 1..n : pos'[moving[i]].y = pos'[t].y
            /\ pos'[t] = pos[t]
            /\ tgt.side = "left" =>
                 pos'[moving[n]].x + PanelWidth + PanelGap = pos'[t].x
            /\ tgt.side = "right" =>
                 pos'[moving[1]].x = pos'[t].x + PanelWidth + PanelGap]_vars

\* a group drag of two linked panels has ended with a panel snap
C34_Witness ==
  /\ last.op = "mouseUp" /\ last.ok /\ last.mode = "group"
  /\ Len(events) = 2 /\ events[1].type = "snap:panel"
  /\ Len(events[1].movingPanels) = 2

(* ------------------- drags with no other call in between ------------------- *)

\* drags alone on a registry whose links are symmetric and acyclic: the panels
\* were linked by earlier operations, then only the mouse acts
OnlyDragsInit ==
  /\ order = SubSeq(AllIds, 1, MaxPanels)
  /\ snappedTo \in [Ids -> IdOrNone]
  /\ \A p, q \in Ids : (p # q /\ snappedTo[p] # None) => snappedTo[p] # snappedTo[q]
  /\ Acyclic(snappedTo, Ids)
  /\ snappedFrom = InverseLinks(snappedTo, Ids)
  /\ \E x2 \in DragSecondXs : pos = DragStartPosition(x2)
  /\ collapsed = [p \in Ids |-> TRUE]
  /\ drag = NoDrag
  /\ events = <<>>
  /\ last = Op("init", TRUE, None)
  /\ hung = FALSE
  /\ steps = 0
  /\ result = NoResult
  /\ anchors = DefaultAnchors
  /\ RestInit

OnlyDragsNext ==
  \/ \E p \in Ids, mode \in {"single", "group"}, off \in GrabOffsets :
       StartDrag(p, mode, off)
  \/ \E c \in CursorPoints : MouseMove(c.x, c.y)
  \/ MouseUp

SpecOnlyDrags == OnlyDragsInit /\ [][OnlyDragsNext]_vars

\* ---------------------------------------------------------------------------
\* C35: starting from symmetric and acyclic links, any sequence of drags
\* (startDrag in 'single' or 'group' mode, mouse-moves, mouse-up) with no other
\* call in between keeps the links symmetric and acyclic, so every chain
\* remains a simple path
C35_DragsKeepSimplePaths ==
  /\ WellFormed(snappedTo, snappedFrom, Registry)
  /\ NoBranching(snappedTo, snappedFrom, Registry)

\* a drag of a chain of two has ended with a snap to the third panel, which
\* gives a chain of three
C35_Witness ==
  /\ last.op = "mouseUp" /\ last.ok /\ last.mode = "group"
  /\ Len(events) = 2 /\ events[1].type = "snap:panel"
  /\ \E a, b, c \in Registry :
       /\ Cardinality({a, b, c}) = 3
       /\ snappedTo[a] = b /\ snappedTo[b] = c

(* ----------------------- the trace of drag events ---------------------- *)

\* the step emits drag:start only when no session is open, drag:move and
\* drag:end only when one is, and never two of drag:start / drag:end
DragEventsInTurn ==
  /\ EmittedCount("drag:start") > 0 => ~drag.active
  /\ (EmittedCount("drag:move") > 0 \/ EmittedCount("drag:end") > 0) => drag.active
  /\ EmittedCount("drag:start") + EmittedCount("drag:end") <= 1

\* the session is open after the step exactly if the step emitted drag:start,
\* or emitted no drag:end and the session was open before
SessionFollowsEvents ==
  drag'.active <=> IF EmittedCount("drag:start") > 0 THEN TRUE
                   ELSE IF EmittedCount("drag:end") > 0 THEN FALSE
                   ELSE drag.active

\* C36: in every event trace drag:start and drag:end strictly alternate,
\* beginning with drag:start, and every drag:move lies between a drag:start and
\* its drag:end; at most one session exists at any time, also when a second
\* mouse-down arrives before the mouse-up of the first drag
C36_DragEventsAlternate == [][DragEventsInTurn /\ SessionFollowsEvents]_vars

\* C36 for one pointer: the same, in every trace in which each mouse-down
\* arrives while no drag is active
C36_AlternateOnePointer ==
  [][~(drag.active /\ last'.op = "startDrag")
       => (DragEventsInTurn /\ SessionFollowsEvents)]_vars

\* a session was opened by a mouse-down, saw a mouse-move and was closed by
\* the mouse-up: drag:end is the last event and the controller is Idle
C36_Witness ==
  /\ last.op = "mouseUp" /\ last.ok
  /\ Len(events) >= 1 /\ events[Len(events)].type = "drag:end"
  /\ ~drag.active
  /\ \E p \in Registry : pos[p] # InitialPosition[p]

(* -------------------- where a drag leaves the panels ------------------- *)

\* C37: after a drag has ended, whatever the outcome (panel snap, anchor dock
\* or free drop), every moving panel lies horizontally inside the window:
\* x >= 0 and x + width <= window width
C37_DragEndsInsideWindow ==
  [][(MouseUp /\ drag.active) =>
       \A p \in Range(drag.movingPanels) \cap Registry' :
         /\ Left(pos', Registry', p) >= 0
         /\ Right(pos', Registry', p) <= WindowWidth]_vars

\* the same for a drag that ends without a panel snap (anchor dock or free drop)
C37_InsideWithoutPanelSnap ==
  [][(MouseUp /\ drag.active
        /\ ~findSnapTarget(drag.movingPanels, order, snappedTo, snappedFrom, pos).found) =>
       \A p \in Range(drag.movingPanels) \cap Registry' :
         /\ Left(pos', Registry', p) >= 0
         /\ Right(pos', Registry', p) <= WindowWidth]_vars

(* ------------------------------ hide timers ---------------------------- *)

C38_WitnessDestroy ==
  /\ last.op = "destroy"
  /\ \E p \in Ids : resolvedAutoHideDelay[p] # None /\ hideTimers[p] = None

(* ---------------- snap preview and anchor indicators ------------------- *)

\* C39: the snap preview is never visible while some anchor indicator is
\* marked active; whenever the drag controller is Idle, the snap preview is
\* hidden and no anchor indicator is visible or active
C39_PreviewOrIndicator ==
  /\ ~(snapPreviewVisible /\ indicatorActive # {})
  /\ ~drag.active =>
       (~snapPreviewVisible /\ indicatorVisible = {} /\ indicatorActive = {})

\* a mouse-move of a drag found a snap target right after an earlier one had
\* marked an anchor indicator active: the preview is visible, the indicators
\* are visible and none is active
C39_Witness ==
  /\ last.op = "mouseMove" /\ last.ok /\ drag.active
  /\ snapPreviewVisible /\ indicatorVisible # {} /\ indicatorActive = {}

\* a drag has ended after the preview or an active indicator was shown
C39_WitnessIdle ==
  /\ last.op = "mouseUp" /\ last.ok /\ ~drag.active
  /\ Len(events) = 2
  /\ ~snapPreviewVisible /\ indicatorVisible = {}

(* ------------------------------- destroy ------------------------------- *)

\* a mouse-move or a mouse-up of the document
MouseEvent == MouseUp \/ \E c \in CursorPoints : MouseMove(c.x, c.y)

\* after destroy() a mouse-move or mouse-up changes no state and emits no event
MouseIgnoredAfterDestroy ==
  (~documentListeners /\ MouseEvent) => (events' = <<>> /\ ProgramStateUnchanged)

\* C40: after TabManager.destroy() has returned, also when it was called while
\* a drag was active, isDragging() is false, text selection is enabled and the
\* registry is empty, and later mouse-move or mouse-up events change no state
\* and emit no event
C40_DestroyCleansUp ==
  [][/\ Destroy => (~drag'.active /\ userSelect' = "" /\ Registry' = {})
     /\ MouseIgnoredAfterDestroy]_vars

\* the part of C40 about the registry and the later mouse events
C40_DestroyDetaches ==
  [][/\ Destroy => Registry' = {}
     /\ MouseIgnoredAfterDestroy]_vars

\* the part of C40 about the drag, for destroy() called while no drag is active
C40_DestroyWhenIdle ==
  [][(Destroy /\ ~drag.active) => (~drag'.active /\ userSelect' = "")]_vars

====
